---- MODULE Spec2Model ----
(***************************************************************************)
(* Response cache and generation services of the Likable prototype        *)
(* builder: SimpleCache / createCacheKey (server cache module) and         *)
(* generateCode / generateChatResponse (server/services/openai.ts), and    *)
(* the routes that call them over the storage tables (server/routes.ts,    *)
(* server/storage.ts).                                                     *)
(*                                                                         *)
(* JavaScript strings that the code slices, trims or rewrites are          *)
(* sequences of one-character strings; opaque payload strings are TLA+     *)
(* strings.  Time is Date.now() in milliseconds.                           *)
(***************************************************************************)
EXTENDS Integers, Sequences, FiniteSets, TLC

VARIABLES cache, now, lastOp, origin, inv, last, apiKey, lastSweep,
          messages, prototypes, res, fp, client, handlers

vars == <<cache, now, lastOp, origin, inv, last, apiKey, lastSweep,
          messages, prototypes, res, fp, client, handlers>>

\* the storage tables, the last HTTP response of the routes and the handlers
\* of the storage routes that wait for the database
routeVars == <<messages, prototypes, res, handlers>>

\* the last two computations of a cache key, and the browser's chat hook
asideVars == <<fp, client>>

(***************************************************************************)
(* Bounds of the model                                                     *)
(***************************************************************************)
MaxMinutes == 6

MaxInv == 2

\* the work of the routes in a run: the steps of the handlers of the requests
\* they take, those rejected with 400 or 404 not counted
MaxRouteWork == 9

\* the work of the hook in a run: its submissions, requests and clearings
MaxHookWork == 22

\* rows of the prototypes table
MaxPrototypes == 2

CacheMaxMinutes == 3

\* rows of the messages table
MaxMessages == 13

\* the last minute at which a cache key is computed
KeyMaxMinutes == 1

\* keys held, invocations and minutes of a run of the key computations,
\* together
MaxKeyWork == 4

\* handlers of the storage routes that wait for the database at a time
MaxHandlers == 2

\* prompts the user submits in the browser
MaxSubmits == 2

\* requests of the hook at which the server's storage throws in a run
MaxFailures == 1

(***************************************************************************)
(* Program constants                                                       *)
(***************************************************************************)
MsPerMinute == 60 * 1000

CodeTtlMinutes == 5

ChatTtlMinutes == 2

CleanupIntervalMs == 5 * 60 * 1000

PromptSlice == 200

ContentSlice == 100

ContextTurns == 3

\* conversationHistory.slice(-10) in the routes
HistoryLimit == 10

(***************************************************************************)
(* JavaScript values                                                       *)
(***************************************************************************)
\* null, as returned by SimpleCache.get
Null == [null |-> TRUE]

\* an omitted argument or a missing property
Undefined == "<undefined>"

\* an omitted optional string (a sequence of characters when present)
UndefinedStr == <<"<undefined>">>

Min(a, b) == IF a < b THEN a ELSE b

Max(a, b) == IF a > b THEN a ELSE b

\* String.prototype.slice(0, n)
SliceTo(s, n) == SubSeq(s, 1, Min(n, Len(s)))

\* Array.prototype.slice(-n)
SliceLast(s, n) == SubSeq(s, Max(1, Len(s) - n + 1), Len(s))

\* the characters matched by \s in the strings of the model
IsSpace(c) == c \in {" ", "\t", "\n"}

(***************************************************************************)
(* SimpleCache                                                             *)
(***************************************************************************)
\* Map.delete
MapDelete(c, key) == [k \in DOMAIN c \ {key} |-> c[k]]

\* Map.set
MapSet(c, key, item) == [k \in DOMAIN c \cup {key} |-> IF k = key THEN item ELSE c[k]]

\* set that keeps the age of an entry it overwrites
set_KeepsAge(c, key, data, ttlMinutes, t) ==
    MapSet(c, key, [data |-> data,
                    timestamp |-> IF key \in DOMAIN c THEN c[key].timestamp ELSE t,
                    ttl |-> ttlMinutes * 60 * 1000])

\* SimpleCache.set(key, data, ttlMinutes) called at time t (every caller in the
\* repository passes ttlMinutes, so its default is never taken)
set(c, key, data, ttlMinutes, t) ==
    MapSet(c, key, [data |-> data,
                    timestamp |-> t,
                    ttl |-> ttlMinutes * 60 * 1000])

\* get that reports an expired entry as absent but leaves it in the map
get_NoEviction(c, key, t) ==
    IF key \in DOMAIN c /\ ~(t - c[key].timestamp > c[key].ttl)
    THEN [ret |-> c[key].data, cache |-> c]
    ELSE [ret |-> Null, cache |-> c]

\* get that evicts every expired entry it comes across
get_EvictsAllExpired(c, key, t) ==
    LET keep == {k \in DOMAIN c : ~(t - c[k].timestamp > c[k].ttl)}
    IN  IF key \notin DOMAIN c
        THEN [ret |-> Null, cache |-> c]
        ELSE IF t - c[key].timestamp > c[key].ttl
             THEN [ret |-> Null, cache |-> [k \in keep |-> c[k]]]
             ELSE [ret |-> c[key].data, cache |-> c]

\* SimpleCache.get(key) called at time t: the returned value and the map it leaves
get(c, key, t) ==
    IF key \notin DOMAIN c
    THEN [ret |-> Null, cache |-> c]
    ELSE IF t - c[key].timestamp > c[key].ttl
         THEN [ret |-> Null, cache |-> MapDelete(c, key)]
         ELSE [ret |-> c[key].data, cache |-> c]

\* new Map()
EmptyMap == [k \in {} |-> Null]

\* clear that removes the expired entries only
clear_KeepsFresh(c) ==
    LET keep == {k \in DOMAIN c : ~(now - c[k].timestamp > c[k].ttl)}
    IN  [k \in keep |-> c[k]]

\* SimpleCache.clear()
clear(c) == EmptyMap

\* cleanup that empties the cache
cleanup_DropsEverything(c, t) == clear(c)

\* cleanup that stops after the first expired entry it deletes
cleanup_StopsAfterFirst(c, t) ==
    LET expired == {k \in DOMAIN c : t - c[k].timestamp > c[k].ttl}
    IN  IF expired = {} THEN c
        ELSE MapDelete(c, CHOOSE k \in expired : TRUE)

\* cleanup that already removes an entry whose age equals its ttl
cleanup_AtBoundary(c, t) ==
    LET keep == {k \in DOMAIN c : ~(t - c[k].timestamp >= c[k].ttl)}
    IN  [k \in keep |-> c[k]]

\* SimpleCache.cleanup() called at time t
cleanup(c, t) ==
    LET keep == {k \in DOMAIN c : ~(t - c[k].timestamp > c[k].ttl)}
    IN  [k \in keep |-> c[k]]

(***************************************************************************)
(* createCacheKey                                                          *)
(***************************************************************************)
RECURSIVE DropSpaces(_)
\* the rest of s after its leading whitespace
DropSpaces(s) ==
    IF s = << >> THEN << >>
    ELSE IF IsSpace(Head(s)) THEN DropSpaces(Tail(s)) ELSE s

\* s.replace(/\s+/g, ' '): the first character of each run of white space
\* becomes one space, the rest of the run goes
CollapseWs(s) ==
    LET marked == [j \in 1..Len(s) |->
                     IF ~IsSpace(s[j]) THEN s[j]
                     ELSE IF j > 1 /\ IsSpace(s[j - 1]) THEN "<rest of run>"
                     ELSE " "]
    IN  SelectSeq(marked, LAMBDA c : c # "<rest of run>")

RECURSIVE Join(_, _)
\* Array.prototype.join(sep) on an array of strings
Join(parts, sep) ==
    IF parts = << >> THEN << >>
    ELSE IF Len(parts) = 1 THEN parts[1]
         ELSE parts[1] \o sep \o Join(Tail(parts), sep)

\* `${m.role}:${m.content.slice(0, 100)}`
TurnStr(m) == m.role \o <<":">> \o SliceTo(m.content, ContentSlice)

\* a createCacheKey that leaves the roles out
createCacheKey_NoRole(prompt, conversationHistory) ==
    LET lastTurns  == SliceLast(conversationHistory, ContextTurns)
        contextStr == Join([j \in 1..Len(lastTurns) |->
                               SliceTo(lastTurns[j].content, ContentSlice)], <<"|">>)
    IN  CollapseWs(SliceTo(prompt, PromptSlice) \o <<"|">> \o contextStr)

\* a createCacheKey that keeps the whole prompt
createCacheKey_WholePrompt(prompt, conversationHistory) ==
    LET lastTurns  == SliceLast(conversationHistory, ContextTurns)
        contextStr == Join([j \in 1..Len(lastTurns) |-> TurnStr(lastTurns[j])], <<"|">>)
    IN  CollapseWs(prompt \o <<"|">> \o contextStr)

\* createCacheKey(prompt, conversationHistory); an omitted history and an
\* empty one both give the empty context string
createCacheKey(prompt, conversationHistory) ==
    LET lastTurns  == SliceLast(conversationHistory, ContextTurns)
        contextStr == Join([j \in 1..Len(lastTurns) |-> TurnStr(lastTurns[j])], <<"|">>)
    IN  CollapseWs(SliceTo(prompt, PromptSlice) \o <<"|">> \o contextStr)

(***************************************************************************)
(* The clock                                                               *)
(***************************************************************************)
\* the instants Date.now() takes in runs of the server: the whole minutes
Instants == {m * MsPerMinute : m \in 0..MaxMinutes}

\* the instants Date.now() takes in direct use of the cache: every whole minute
\* and the millisecond after it
CacheInstants == {m * MsPerMinute + e : m \in 0..CacheMaxMinutes, e \in {0, 1}}

(***************************************************************************)
(* generateCode and generateChatResponse: values                           *)
(***************************************************************************)
\* value || fallback, for a string-valued or missing property
OrElse(v, fallback) == IF v = Undefined \/ v = "" THEN fallback ELSE v

\* if (cachedResult): null and the empty string are falsy, objects are truthy
Truthy(v) == v # Null /\ v # [str |-> ""]

\* String.prototype.trim
RECURSIVE DropTrailingSpaces(_)
DropTrailingSpaces(s) ==
    IF s = << >> THEN << >>
    ELSE IF IsSpace(s[Len(s)]) THEN DropTrailingSpaces(SubSeq(s, 1, Len(s) - 1)) ELSE s

trim(s) == DropTrailingSpaces(DropSpaces(s))

\* response.choices[0].message.content when the API sends none
NullContent == "<null>"

\* a parsed JSON object, with Undefined for a property it does not have
Obj(html, css, js, explanation, question) ==
    [html |-> html, css |-> css, js |-> js, explanation |-> explanation,
     question |-> question]

JsonPage1 == "{\"html\":\"<h1>\",\"explanation\":\"ok\"}"

JsonPage2 == "{\"html\":\"<h2>\",\"css\":\"c\",\"js\":\"j\",\"explanation\":\"two\"}"

JsonQuestion == "{\"question\":\"name?\",\"html\":\"\",\"explanation\":\"need\"}"

JsonNoHtml == "{\"explanation\":\"ok\"}"

JsonNoExplanation == "{\"html\":\"<h1>\"}"

JsonNull == "null"

JsonEmpty == "{}"

NotJson == "Sure! Here is your page"

\* JSON.parse(content) for the contents of the model: the parsed value, or the
\* SyntaxError it throws
JSONparse(content) ==
    CASE content = JsonPage1 ->
            [ok |-> TRUE, isNull |-> FALSE,
             value |-> Obj("<h1>", Undefined, Undefined, "ok", Undefined)]
      [] content = JsonPage2 ->
            [ok |-> TRUE, isNull |-> FALSE,
             value |-> Obj("<h2>", "c", "j", "two", Undefined)]
      [] content = JsonQuestion ->
            [ok |-> TRUE, isNull |-> FALSE,
             value |-> Obj("", Undefined, Undefined, "need", "name?")]
      [] content = JsonNoHtml ->
            [ok |-> TRUE, isNull |-> FALSE,
             value |-> Obj(Undefined, Undefined, Undefined, "ok", Undefined)]
      [] content = JsonNoExplanation ->
            [ok |-> TRUE, isNull |-> FALSE,
             value |-> Obj("<h1>", Undefined, Undefined, Undefined, Undefined)]
      [] content = JsonEmpty ->
            [ok |-> TRUE, isNull |-> FALSE,
             value |-> Obj(Undefined, Undefined, Undefined, Undefined, Undefined)]
      [] content = JsonNull ->
            [ok |-> TRUE, isNull |-> TRUE,
             value |-> Obj(Undefined, Undefined, Undefined, Undefined, Undefined)]
      [] OTHER ->
            [ok |-> FALSE, isNull |-> FALSE,
             value |-> Obj(Undefined, Undefined, Undefined, Undefined, Undefined)]

\* what openai.chat.completions.create can do for generateCode: reject, or
\* resolve with a message content
CodeContents == {"", NotJson, JsonPage1, JsonEmpty}

CodeResponses ==
    {[kind |-> "rejected", content |-> NullContent, message |-> "429 rate limit"]}
    \cup {[kind |-> "resolved", content |-> c, message |-> ""] : c \in CodeContents}

ChatContents == {"", NullContent, "I'll update the heading."}

ChatResponses ==
    {[kind |-> "rejected", content |-> NullContent, message |-> "429 rate limit"]}
    \cup {[kind |-> "resolved", content |-> c, message |-> ""] : c \in ChatContents}

\* how a call ends
Returned(value) == [status |-> "returned", value |-> value, error |-> << >>]

\* throw new Error(prefix + message)
Threw(prefix, message) == [status |-> "threw", value |-> Null, error |-> <<prefix, message>>]

Pending == [status |-> "pending", value |-> Null, error |-> << >>]

(***************************************************************************)
(* generateCode                                                            *)
(***************************************************************************)
RoleSystem == <<"s", "y", "s", "t", "e", "m">>

RoleUser == <<"u", "s", "e", "r">>

RoleAssistant == <<"a", "s", "s", "i", "s", "t", "a", "n", "t">>

\* request.currentPrototype && request.currentPrototype.trim().length > 0
isModification(request) ==
    /\ request.currentPrototype # UndefinedStr
    /\ request.currentPrototype # << >>
    /\ Len(trim(request.currentPrototype)) > 0

\* the system prompt of generateCode; the fixed instruction texts are one token
\* each, the modification text embeds ${request.currentPrototype}
systemPrompt(request) ==
    IF isModification(request)
    THEN <<"<modification rules>">> \o request.currentPrototype \o <<"<response format>">>
    ELSE <<"<fresh generation rules>">>

\* messages: the system message, the conversation history, the current prompt
codeMessages(request) ==
    <<[role |-> RoleSystem, content |-> systemPrompt(request)]>>
    \o [j \in 1..Len(request.conversationHistory) |->
           [role |-> request.conversationHistory[j].role,
            content |-> request.conversationHistory[j].content]]
    \o <<[role |-> RoleUser, content |-> request.prompt]>>

\* the argument of openai.chat.completions.create in generateCode; the
\* temperature is in tenths
\* the API request of a generateCode that picks the temperature from the mere
\* presence of currentPrototype, apart from the choice of the system prompt
codeApiRequest_TemperatureFromPresence(request) ==
    [model |-> "gpt-4o",
     messages |-> codeMessages(request),
     json_object |-> TRUE,
     temperatureTenths |-> IF request.currentPrototype # UndefinedStr THEN 1 ELSE 7,
     max_tokens |-> 2000]

codeApiRequest(request) ==
    [model |-> "gpt-4o",
     messages |-> codeMessages(request),
     json_object |-> TRUE,
     temperatureTenths |-> IF isModification(request) THEN 1 ELSE 7,
     max_tokens |-> 2000]

\* the cache key of generateCode: createCacheKey is called with
\* request.currentPrototype as a third argument, which it does not take
codeCacheKey(request) == createCacheKey(request.prompt, request.conversationHistory)

\* generateCode that never consults the cache
generateCodeHead_SkipsLookup(c, request, configured, t) ==
    IF ~configured
    THEN [cache |-> c, outcome |-> Threw("", "OpenAI API key not configured"),
          events |-> <<"throw">>, apiCalls |-> 0]
    ELSE [cache |-> c, outcome |-> Pending,
          events |-> <<"lookup", "apiCall">>, apiCalls |-> 1]

\* generateCode that looks the request up in the cache before it checks the
\* credential
generateCodeHead_LookupBeforeKeyCheck(c, request, configured, t) ==
    LET looked == get(c, codeCacheKey(request), t)
    IN  IF Truthy(looked.ret)
        THEN [cache |-> looked.cache, outcome |-> Returned(looked.ret),
              events |-> <<"lookup", "return">>, apiCalls |-> 0]
        ELSE IF ~configured
        THEN [cache |-> looked.cache,
              outcome |-> Threw("", "OpenAI API key not configured"),
              events |-> <<"lookup", "throw">>, apiCalls |-> 0]
        ELSE [cache |-> looked.cache, outcome |-> Pending,
              events |-> <<"lookup", "apiCall">>, apiCalls |-> 1]

\* generateCode up to the await: the credential check, the cache lookup and,
\* on a miss, the request handed to the API
generateCodeHead(c, request, configured, t) ==
    IF ~configured
    THEN [cache |-> c, outcome |-> Threw("", "OpenAI API key not configured"),
          events |-> <<"throw">>, apiCalls |-> 0]
    ELSE LET looked == get(c, codeCacheKey(request), t)
         IN  IF Truthy(looked.ret)
             THEN [cache |-> looked.cache, outcome |-> Returned(looked.ret),
                   events |-> <<"lookup", "return">>, apiCalls |-> 0]
             ELSE [cache |-> looked.cache, outcome |-> Pending,
                   events |-> <<"lookup", "apiCall">>, apiCalls |-> 1]

\* generateCode that leaves an entry a concurrent invocation stored meanwhile
generateCodeTail_KeepsExisting(c, cacheKey, response, t) ==
    LET prefix == "Failed to generate code: "
        parsed == JSONparse(response.content)
        result == Obj(OrElse(parsed.value.html, ""),
                      OrElse(parsed.value.css, ""),
                      OrElse(parsed.value.js, ""),
                      OrElse(parsed.value.explanation, "Code generated successfully"),
                      OrElse(parsed.value.question, Undefined))
    IN  IF response.kind = "rejected" \/ response.content = NullContent
           \/ response.content = "" \/ ~parsed.ok \/ parsed.isNull
        THEN [cache |-> c,
              outcome |-> Threw(prefix, IF response.kind = "rejected"
                                        THEN response.message ELSE "Malformed response"),
              events |-> <<"throw">>]
        ELSE [cache |-> IF cacheKey \in DOMAIN c THEN c
                        ELSE set(c, cacheKey, result, CodeTtlMinutes, t),
              outcome |-> Returned(result),
              events |-> <<"store", "return">>]

\* generateCode whose catch block caches an empty result before rethrowing
generateCodeTail_CachesOnFailure(c, cacheKey, response, t) ==
    LET prefix == "Failed to generate code: "
        parsed == JSONparse(response.content)
        empty  == Obj("", "", "", "Code generated successfully", Undefined)
        result == Obj(OrElse(parsed.value.html, ""),
                      OrElse(parsed.value.css, ""),
                      OrElse(parsed.value.js, ""),
                      OrElse(parsed.value.explanation, "Code generated successfully"),
                      OrElse(parsed.value.question, Undefined))
    IN  IF response.kind = "rejected" \/ response.content = NullContent
           \/ response.content = "" \/ ~parsed.ok \/ parsed.isNull
        THEN [cache |-> set(c, cacheKey, empty, CodeTtlMinutes, t),
              outcome |-> Threw(prefix, response.message),
              events |-> <<"store", "throw">>]
        ELSE [cache |-> set(c, cacheKey, result, CodeTtlMinutes, t),
              outcome |-> Returned(result),
              events |-> <<"store", "return">>]

\* generateCode whose catch block empties the cache
generateCodeTail_ClearsOnFailure(c, cacheKey, response, t) ==
    LET prefix == "Failed to generate code: "
        parsed == JSONparse(response.content)
        result == Obj(OrElse(parsed.value.html, ""),
                      OrElse(parsed.value.css, ""),
                      OrElse(parsed.value.js, ""),
                      OrElse(parsed.value.explanation, "Code generated successfully"),
                      OrElse(parsed.value.question, Undefined))
    IN  IF response.kind = "rejected" \/ response.content = NullContent
           \/ response.content = "" \/ ~parsed.ok \/ parsed.isNull
        THEN [cache |-> clear(c),
              outcome |-> Threw(prefix, response.message),
              events |-> <<"throw">>]
        ELSE [cache |-> set(c, cacheKey, result, CodeTtlMinutes, t),
              outcome |-> Returned(result),
              events |-> <<"store", "return">>]

\* generateCode from the API's answer on: the try block and its catch
generateCodeTail(c, cacheKey, response, t) ==
    LET prefix  == "Failed to generate code: "
        content == response.content
        parsed  == JSONparse(content)
        result  == Obj(OrElse(parsed.value.html, ""),
                       OrElse(parsed.value.css, ""),
                       OrElse(parsed.value.js, ""),
                       OrElse(parsed.value.explanation, "Code generated successfully"),
                       OrElse(parsed.value.question, Undefined))
    IN  IF response.kind = "rejected"
        THEN [cache |-> c, outcome |-> Threw(prefix, response.message),
              events |-> <<"throw">>]
        ELSE IF content = NullContent \/ content = ""
        THEN [cache |-> c, outcome |-> Threw(prefix, "No response content from OpenAI"),
              events |-> <<"throw">>]
        ELSE IF ~parsed.ok
        THEN [cache |-> c, outcome |-> Threw(prefix, "Unexpected token in JSON"),
              events |-> <<"throw">>]
        ELSE IF parsed.isNull
        THEN [cache |-> c, outcome |-> Threw(prefix, "Cannot read properties of null"),
              events |-> <<"throw">>]
        ELSE [cache |-> set(c, cacheKey, result, CodeTtlMinutes, t),
              outcome |-> Returned(result),
              events |-> <<"store", "return">>]

(***************************************************************************)
(* generateChatResponse                                                    *)
(***************************************************************************)
ChatPrefix == <<"c", "h", "a", "t", ":">>

\* `chat:${createCacheKey(prompt, conversationHistory)}`
chatCacheKey(request) ==
    ChatPrefix \o createCacheKey(request.prompt, request.conversationHistory)

\* the messages of a generateChatResponse that adds the history newest first
chatMessages_NewestFirst(request) ==
    <<[role |-> RoleSystem, content |-> <<"<chat assistant rules>">>]>>
    \o [j \in 1..Len(request.conversationHistory) |->
           [role |-> request.conversationHistory[
                        Len(request.conversationHistory) + 1 - j].role,
            content |-> request.conversationHistory[
                        Len(request.conversationHistory) + 1 - j].content]]
    \o <<[role |-> RoleUser, content |-> request.prompt]>>

chatMessages(request) ==
    <<[role |-> RoleSystem, content |-> <<"<chat assistant rules>">>]>>
    \o [j \in 1..Len(request.conversationHistory) |->
           [role |-> request.conversationHistory[j].role,
            content |-> request.conversationHistory[j].content]]
    \o <<[role |-> RoleUser, content |-> request.prompt]>>

chatApiRequest(request) ==
    [model |-> "gpt-4o",
     messages |-> chatMessages(request),
     json_object |-> FALSE,
     temperatureTenths |-> 7,
     max_tokens |-> 200]

ChatFallback == "I apologize, but I couldn't generate a response. Please try again."

\* generateChatResponse up to the await
generateChatResponseHead(c, request, configured, t) ==
    IF ~configured
    THEN [cache |-> c, outcome |-> Threw("", "OpenAI API key not configured"),
          events |-> <<"throw">>, apiCalls |-> 0]
    ELSE LET looked == get(c, chatCacheKey(request), t)
         IN  IF Truthy(looked.ret)
             THEN [cache |-> looked.cache, outcome |-> Returned(looked.ret),
                   events |-> <<"lookup", "return">>, apiCalls |-> 0]
             ELSE [cache |-> looked.cache, outcome |-> Pending,
                   events |-> <<"lookup", "apiCall">>, apiCalls |-> 1]

\* generateChatResponse that calls the API a second time when the first call
\* is rejected (here the second call is rejected as well)
generateChatResponseTail_RetriesOnce(c, cacheKey, response, t) ==
    LET result == [str |-> IF response.content = NullContent \/ response.content = ""
                           THEN ChatFallback ELSE response.content]
    IN  IF response.kind = "rejected"
        THEN [cache |-> c,
              outcome |-> Threw("Failed to generate chat response: ", response.message),
              events |-> <<"apiCall", "throw">>]
        ELSE [cache |-> set(c, cacheKey, result, ChatTtlMinutes, t),
              outcome |-> Returned(result),
              events |-> <<"store", "return">>]

\* generateChatResponse that answers with the fallback text when the API fails
generateChatResponseTail_SwallowsError(c, cacheKey, response, t) ==
    LET result == [str |-> IF response.kind = "rejected"
                              \/ response.content = NullContent \/ response.content = ""
                           THEN ChatFallback ELSE response.content]
    IN  IF response.kind = "rejected"
        THEN [cache |-> c, outcome |-> Returned(result), events |-> <<"return">>]
        ELSE [cache |-> set(c, cacheKey, result, ChatTtlMinutes, t),
              outcome |-> Returned(result),
              events |-> <<"store", "return">>]

\* generateChatResponse that caches its reply for as long as generated code
generateChatResponseTail_CodeTtl(c, cacheKey, response, t) ==
    LET result == [str |-> IF response.content = NullContent \/ response.content = ""
                           THEN ChatFallback ELSE response.content]
    IN  IF response.kind = "rejected"
        THEN [cache |-> c,
              outcome |-> Threw("Failed to generate chat response: ", response.message),
              events |-> <<"throw">>]
        ELSE [cache |-> set(c, cacheKey, result, CodeTtlMinutes, t),
              outcome |-> Returned(result),
              events |-> <<"store", "return">>]

\* generateChatResponse that returns the reply without caching it
generateChatResponseTail_SkipsStore(c, cacheKey, response, t) ==
    LET result == [str |-> IF response.content = NullContent \/ response.content = ""
                           THEN ChatFallback ELSE response.content]
    IN  IF response.kind = "rejected"
        THEN [cache |-> c,
              outcome |-> Threw("Failed to generate chat response: ", response.message),
              events |-> <<"throw">>]
        ELSE [cache |-> c, outcome |-> Returned(result), events |-> <<"return">>]

\* generateChatResponse that fails on empty content as generateCode does
generateChatResponseTail_ThrowsOnEmpty(c, cacheKey, response, t) ==
    IF response.kind = "rejected"
    THEN [cache |-> c,
          outcome |-> Threw("Failed to generate chat response: ", response.message),
          events |-> <<"throw">>]
    ELSE IF response.content = NullContent \/ response.content = ""
         THEN [cache |-> c,
               outcome |-> Threw("Failed to generate chat response: ",
                                 "No content received from OpenAI"),
               events |-> <<"throw">>]
         ELSE [cache |-> set(c, cacheKey, [str |-> response.content], ChatTtlMinutes, t),
               outcome |-> Returned([str |-> response.content]),
               events |-> <<"store", "return">>]

\* generateChatResponse from the API's answer on
generateChatResponseTail(c, cacheKey, response, t) ==
    LET result == [str |-> IF response.content = NullContent \/ response.content = ""
                           THEN ChatFallback ELSE response.content]
    IN  IF response.kind = "rejected"
        THEN [cache |-> c,
              outcome |-> Threw("Failed to generate chat response: ", response.message),
              events |-> <<"throw">>]
        ELSE [cache |-> set(c, cacheKey, result, ChatTtlMinutes, t),
              outcome |-> Returned(result),
              events |-> <<"store", "return">>]

(***************************************************************************)
(* The server: concurrent invocations of the two services, the clock and   *)
(* the cleanup timer.  An invocation runs without interruption up to its   *)
(* await and again from the API's answer to its end.                       *)
(***************************************************************************)
Prompt1 == <<"a", " ", "b">>

Prompt2 == <<"c">>

Turn1 == [role |-> RoleUser, content |-> <<"h", "i">>]

Turn2 == [role |-> RoleAssistant, content |-> <<"y", "o">>]

Page1 == <<"<", "p", ">">>

\* a current artifact of white space only
BlankPage == <<" ", "\n">>

CodeRequests ==
    {[prompt |-> Prompt2, conversationHistory |-> <<Turn1, Turn2>>, currentPrototype |-> a] :
        a \in {UndefinedStr, Page1, BlankPage}}

ChatRequests ==
    {[prompt |-> Prompt2, conversationHistory |-> <<Turn1, Turn2>>]}

\* the record of the last direct call on the cache: none yet
NoOp == [name |-> "none", key |-> << >>, ret |-> Null, before |-> EmptyMap,
         at |-> 0, data |-> Null, ttlMinutes |-> 0]

NoResponse == [kind |-> "none", content |-> NullContent, message |-> ""]

\* history of the run: which invocation stored a cache entry, for which
\* request, and the value that invocation returned
NoOrigin == [by |-> 0, fn |-> "none", request |-> Null, value |-> Null]

\* an invocation slot: idle, awaiting the API's answer, or done
Idle == [pc |-> "idle", fn |-> "none", request |-> Null, cacheKey |-> << >>,
         apiCalls |-> 0, events |-> << >>, apiRequest |-> Null, evicted |-> FALSE,
         found |-> NoOrigin]

Done == [Idle EXCEPT !.pc = "done"]

\* history of the run: the last step of a service or of the cleanup timer,
\* with the cache it started from
NoStep == [step |-> "none", i |-> 0, fn |-> "none", request |-> Null,
           cacheKey |-> << >>, apiCalls |-> 0, events |-> << >>,
           apiRequest |-> Null, evicted |-> FALSE, response |-> NoResponse,
           outcome |-> Pending, found |-> NoOrigin, before |-> EmptyMap, at |-> 0]

\* the last HTTP response of a route: none yet
NoRes == [route |-> "none", request |-> Null, status |-> 0, json |-> Null, reads |-> 0]

\* a handler of a storage route: none, or one that waits for the database at
\* pc with the row its query has given; caller is the submission of the hook
\* that has sent the request, 0 for another caller
NoHandler == [route |-> "none", pc |-> "idle", request |-> Null, row |-> Null,
              caller |-> 0]

\* no cache key has been computed yet
NoKey == [fn |-> "none", prompt |-> << >>, conversationHistory |-> << >>,
          artifact |-> UndefinedStr, fingerprint |-> << >>, key |-> << >>]

NoFp == [prev |-> NoKey, cur |-> NoKey]

\* a submission the user has not made yet: where it is, the request it
\* awaits, the conversation its callback and its onSuccess use, the result
NoFlow == [pc |-> "idle", flow |-> "none", prompt |-> << >>,
           before |-> [messages |-> {}, prototypes |-> {}],
           request |-> "none", response |-> NoRes, slot |-> 0, requests |-> 0,
           conversationId |-> Undefined, seen |-> Undefined,
           result |-> Null, existingPrototype |-> Null]

\* the chat hook before the user has submitted anything: no conversation
NoClient == [flows |-> [k \in 1..MaxSubmits |-> NoFlow],
             error |-> "", toast |-> "", submits |-> 0,
             conversation |-> [id |-> Undefined], mutation |-> 0,
             cleared |-> 0, failures |-> 0]

\* the history map, kept to the keys of the cache
Restrict(o, c) == [k \in DOMAIN c |-> o[k]]

\* invocation slots are taken in order
CanStart(i) == inv[i].pc = "idle" /\ (i > 1 => inv[i - 1].pc # "idle")

\* a service runs in slot i up to its await (or to its end, on a cache hit or
\* a missing credential)
RunToAwait(i, fn, request, key, h, apiRequest) ==
    LET slot == [pc |-> "awaiting", fn |-> fn, request |-> request, cacheKey |-> key,
                 apiCalls |-> h.apiCalls, events |-> h.events,
                 apiRequest |-> IF h.apiCalls = 1 THEN apiRequest ELSE Null,
                 evicted |-> h.cache # cache,
                 found |-> IF key \in DOMAIN cache THEN origin[key] ELSE NoOrigin]
    IN  /\ cache' = h.cache
        /\ origin' = Restrict(origin, h.cache)
        /\ inv' = [inv EXCEPT ![i] = IF h.outcome.status = "pending" THEN slot ELSE Done]
        /\ last' = [step |-> "call", i |-> i, fn |-> fn, request |-> request,
                    cacheKey |-> key, apiCalls |-> slot.apiCalls, events |-> slot.events,
                    apiRequest |-> slot.apiRequest, evicted |-> slot.evicted,
                    response |-> NoResponse, outcome |-> h.outcome,
                    found |-> slot.found, before |-> cache, at |-> now]
        /\ UNCHANGED <<now, lastOp, apiKey, lastSweep>>

\* the step that starts an invocation in a free slot and runs the service up
\* to its await
Call(i, fn, request, key, h, apiRequest) ==
    /\ CanStart(i)
    /\ RunToAwait(i, fn, request, key, h, apiRequest)

\* the step that runs a service from the API's answer to its end
Return(i, fn, response, tl) ==
    /\ inv[i].pc = "awaiting"
    /\ inv[i].fn = fn
    /\ cache' = tl.cache
    /\ origin' = IF \/ "store" \in {tl.events[n] : n \in 1..Len(tl.events)}
                    \/ tl.cache # cache
                 THEN Restrict(MapSet(origin, inv[i].cacheKey,
                                      [by |-> i, fn |-> fn, request |-> inv[i].request,
                                       value |-> tl.outcome.value]),
                               tl.cache)
                 ELSE origin
    /\ inv' = [inv EXCEPT ![i] = Done]
    /\ last' = [step |-> "return", i |-> i, fn |-> fn, request |-> inv[i].request,
                cacheKey |-> inv[i].cacheKey, apiCalls |-> inv[i].apiCalls,
                events |-> inv[i].events \o tl.events,
                apiRequest |-> inv[i].apiRequest, evicted |-> inv[i].evicted,
                response |-> response, outcome |-> tl.outcome,
                found |-> inv[i].found, before |-> cache, at |-> now]
    /\ UNCHANGED <<now, lastOp, apiKey, lastSweep>>

CallGenerateCode(i, request) ==
    /\ Call(i, "generateCode", request,
            IF apiKey THEN codeCacheKey(request) ELSE << >>,
            generateCodeHead(cache, request, apiKey, now),
            codeApiRequest(request))
    /\ UNCHANGED <<routeVars, asideVars>>

ReturnGenerateCode(i, response) ==
    /\ Return(i, "generateCode", response,
              generateCodeTail(cache, inv[i].cacheKey, response, now))
    /\ UNCHANGED <<routeVars, asideVars>>

CallGenerateChatResponse(i, request) ==
    /\ Call(i, "generateChatResponse", request,
            IF apiKey THEN chatCacheKey(request) ELSE << >>,
            generateChatResponseHead(cache, request, apiKey, now),
            chatApiRequest(request))
    /\ UNCHANGED <<routeVars, asideVars>>

ReturnGenerateChatResponse(i, response) ==
    /\ Return(i, "generateChatResponse", response,
              generateChatResponseTail(cache, inv[i].cacheKey, response, now))
    /\ UNCHANGED <<routeVars, asideVars>>

\* Date.now() moves forward
Tick ==
    /\ \E t \in Instants : t > now /\ now' = t
    /\ last' = NoStep
    /\ UNCHANGED <<cache, lastOp, origin, inv, apiKey, lastSweep>>
    /\ UNCHANGED <<routeVars, asideVars>>

\* setInterval(() => responseCache.cleanup(), 5 * 60 * 1000): the callback
\* runs no sooner than the interval after the previous run
SweepTimer ==
    /\ now - lastSweep >= CleanupIntervalMs
    /\ cache' = cleanup(cache, now)
    /\ origin' = Restrict(origin, cleanup(cache, now))
    /\ lastSweep' = now
    /\ last' = [NoStep EXCEPT !.step = "sweep", !.before = cache, !.at = now]
    /\ UNCHANGED <<now, lastOp, inv, apiKey>>
    /\ UNCHANGED <<routeVars, asideVars>>

\* the module is loaded at time 0 with an empty cache; OPENAI_API_KEY is set
\* or not for the life of the process
Init ==
    /\ cache = EmptyMap
    /\ now = 0
    /\ lastOp = NoOp
    /\ origin = EmptyMap
    /\ inv = [i \in 1..MaxInv |-> Idle]
    /\ last = NoStep
    /\ apiKey \in BOOLEAN
    /\ lastSweep = 0
    /\ messages = {}
    /\ prototypes = {}
    /\ res = NoRes
    /\ fp = NoFp
    /\ client = NoClient
    /\ handlers = [h \in 1..MaxHandlers |-> NoHandler]

Next ==
    \/ \E i \in 1..MaxInv, request \in CodeRequests : CallGenerateCode(i, request)
    \/ \E i \in 1..MaxInv, response \in CodeResponses : ReturnGenerateCode(i, response)
    \/ \E i \in 1..MaxInv, request \in ChatRequests : CallGenerateChatResponse(i, request)
    \/ \E i \in 1..MaxInv, response \in ChatResponses : ReturnGenerateChatResponse(i, response)
    \/ Tick
    \/ SweepTimer

Spec == Init /\ [][Next]_vars

(***************************************************************************)
(* Direct use of a SimpleCache: any sequence of set/get/cleanup/clear      *)
(***************************************************************************)
CacheKeys == {<<"k", "1">>, <<"k", "2">>}

CacheValues == {[str |-> "v1"], [str |-> "v2"]}

TtlArgs == {1, 2}

ServiceFrame ==
    UNCHANGED <<origin, inv, last, apiKey, lastSweep, messages, prototypes, res, fp, client,
                handlers>>

CacheSet(key, data, ttlMinutes) ==
    /\ cache' = set(cache, key, data, ttlMinutes, now)
    /\ lastOp' = [name |-> "set", key |-> key, ret |-> Null, before |-> cache,
                  at |-> now, data |-> data, ttlMinutes |-> ttlMinutes]
    /\ UNCHANGED now
    /\ ServiceFrame

CacheGet(key) ==
    /\ cache' = get(cache, key, now).cache
    /\ lastOp' = [name |-> "get", key |-> key, ret |-> get(cache, key, now).ret,
                  before |-> cache, at |-> now, data |-> Null, ttlMinutes |-> 0]
    /\ UNCHANGED now
    /\ ServiceFrame

CacheClear ==
    /\ cache' = clear(cache)
    /\ lastOp' = [name |-> "clear", key |-> << >>, ret |-> Null, before |-> cache,
                  at |-> now, data |-> Null, ttlMinutes |-> 0]
    /\ UNCHANGED now
    /\ ServiceFrame

CacheCleanup ==
    /\ cache' = cleanup(cache, now)
    /\ lastOp' = [name |-> "cleanup", key |-> << >>, ret |-> Null, before |-> cache,
                  at |-> now, data |-> Null, ttlMinutes |-> 0]
    /\ UNCHANGED now
    /\ ServiceFrame

\* Date.now() moves forward
CacheTick ==
    /\ \E t \in CacheInstants : t > now /\ now' = t
    /\ UNCHANGED <<cache, lastOp>>
    /\ ServiceFrame

InitCache ==
    /\ cache = EmptyMap
    /\ now = 0
    /\ lastOp = NoOp
    /\ origin = EmptyMap
    /\ inv = [i \in 1..MaxInv |-> Idle]
    /\ last = NoStep
    /\ apiKey = TRUE
    /\ lastSweep = 0
    /\ messages = {}
    /\ prototypes = {}
    /\ res = NoRes
    /\ fp = NoFp
    /\ client = NoClient
    /\ handlers = [h \in 1..MaxHandlers |-> NoHandler]

NextCache ==
    \/ \E key \in CacheKeys, data \in CacheValues, ttlMinutes \in TtlArgs :
            CacheSet(key, data, ttlMinutes)
    \/ \E key \in CacheKeys : CacheGet(key)
    \/ CacheClear
    \/ CacheCleanup
    \/ CacheTick

SpecCache == InitCache /\ [][NextCache]_vars

(***************************************************************************)
(* The routes /api/messages, /api/prototypes, /api/generate-code and       *)
(* /api/chat over the storage tables, at one instant of the clock.  The    *)
(* handlers run concurrently: each gives control back at every await, its  *)
(* storage reads and the API call, and any other request can be handled    *)
(* in between.  A storage read returns the table as it is when the read is *)
(* issued.  The conversations table is not part of the state.              *)
(***************************************************************************)
\* the messages table when the server starts: the database holds a turn of
\* another conversation
StoredBefore ==
    {[conversationId |-> "c2", role |-> RoleUser, content |-> <<"z">>, createdAt |-> 1]}

\* the responses of the API to the requests of the routes
RouteCodeResponses ==
    {r \in CodeResponses : r.kind = "rejected" \/ r.content = JsonPage1}

RouteChatResponses ==
    {r \in ChatResponses : r.kind = "rejected" \/ r.content \notin {"", NullContent}}

\* the contents of the turns of a conversation, one letter each, in order
Alphabet == <<"a", "b", "c", "d", "e", "f", "g", "h", "i", "j", "k", "l", "m">>

\* turns of the conversation the database holds when the server starts
TurnsBefore == 10

\* the messages table when the server starts in the middle of conversation
\* "c1": the turn of the other conversation, then the first turns of "c1",
\* user and assistant in alternation
StoredTurns ==
    StoredBefore \cup
    {[conversationId |-> "c1",
      role |-> IF j % 2 = 1 THEN RoleUser ELSE RoleAssistant,
      content |-> <<Alphabet[j]>>,
      createdAt |-> j + 1] : j \in 1..TurnsBefore}

\* DatabaseStorage.createMessage: insert ... returning; created_at defaults
\* to the database clock at the insert, later for every later insert
createMessage(table, insertMessage) ==
    table \cup {[conversationId |-> insertMessage.conversationId,
                 role |-> insertMessage.role,
                 content |-> insertMessage.content,
                 createdAt |-> Cardinality(table) + 1]}

RECURSIVE orderBy(_)
\* .orderBy(messages.createdAt)
orderBy(rows) ==
    IF rows = {} THEN << >>
    ELSE LET first == CHOOSE r \in rows : \A q \in rows : r.createdAt <= q.createdAt
         IN  <<first>> \o orderBy(rows \ {first})

\* DatabaseStorage.getMessagesByConversationId
getMessagesByConversationId(table, conversationId) ==
    orderBy({r \in table : r.conversationId = conversationId})

\* DatabaseStorage.createPrototype: the row gets a new id; updatedAt counts
\* the writes of the row
createPrototype(table, insertPrototype) ==
    table \cup {[id |-> Cardinality(table) + 1,
                 conversationId |-> insertPrototype.conversationId,
                 htmlContent |-> insertPrototype.htmlContent,
                 updatedAt |-> 1]}

\* DatabaseStorage.updatePrototype: set the given columns and updatedAt of the
\* row with the id, if there is one
updatePrototype(table, id, updateData) ==
    {IF r.id = id
     THEN [r EXCEPT !.htmlContent = updateData.htmlContent, !.updatedAt = @ + 1]
     ELSE r : r \in table}

\* undefined, where a row is expected
NoRow == [undefined |-> TRUE]

\* DatabaseStorage.getPrototypeByConversationId: the first row of a select
\* without an order, or undefined.  The set of the results the call can give:
\* with several rows of the conversation any of them can come first
getPrototypeByConversationId(table, conversationId) ==
    LET rows == {r \in table : r.conversationId = conversationId}
    IN  IF rows = {} THEN {NoRow} ELSE rows

\* a route's conversationHistory.slice(-10) that keeps the first ten turns
routeHistory_FirstTen(table, conversationId) ==
    LET rows == IF conversationId # Undefined
                THEN getMessagesByConversationId(table, conversationId)
                ELSE << >>
        conversationHistory ==
            [j \in 1..Len(rows) |-> [role |-> rows[j].role, content |-> rows[j].content]]
    IN  SliceTo(conversationHistory, HistoryLimit)

\* the history a route passes to the service: the conversation's messages
\* mapped to {role, content}, then conversationHistory.slice(-10)
routeHistory(table, conversationId) ==
    LET rows == IF conversationId # Undefined
                THEN getMessagesByConversationId(table, conversationId)
                ELSE << >>
        conversationHistory ==
            [j \in 1..Len(rows) |-> [role |-> rows[j].role, content |-> rows[j].content]]
    IN  SliceLast(conversationHistory, HistoryLimit)

\* the currentPrototype /api/generate-code can get from its read: the
\* htmlContent of the row read, undefined without a row
routePrototype(table, conversationId) ==
    {IF prototype = NoRow THEN UndefinedStr ELSE prototype.htmlContent :
        prototype \in getPrototypeByConversationId(table, conversationId)}

\* the bodies posted to /api/generate-code and /api/chat
RouteBodies ==
    {[prompt |-> Prompt1, conversationId |-> "c1"],
     [prompt |-> Prompt1, conversationId |-> Undefined],
     [prompt |-> UndefinedStr, conversationId |-> "c1"],
     [prompt |-> << >>, conversationId |-> "c1"]}

\* the storage reads a handler issues in its first step once it has got a
\* prompt: the messages of the conversation the body names
storageReads(route, body) ==
    IF body.conversationId = Undefined THEN 0 ELSE 1

\* a handler that waits for a storage read: the body of its request, the
\* history it has read and, for code generation, the prototype it has read
Reading(pc, fn, body, conversationHistory, currentPrototype) ==
    [Idle EXCEPT !.pc = pc, !.fn = fn,
                 !.request = [body |-> body,
                              conversationHistory |-> conversationHistory,
                              currentPrototype |-> currentPrototype]]

\* the step of a handler that ends at the await of a storage read
AwaitStorage(i, slot, route) ==
    /\ inv' = [inv EXCEPT ![i] = slot]
    /\ res' = [route |-> route, request |-> slot.request.body, status |-> 0,
               json |-> Null, reads |-> 1]
    /\ last' = NoStep
    /\ UNCHANGED <<cache, now, lastOp, origin, apiKey, lastSweep, messages, prototypes, fp, handlers>>

\* the catch of a handler of an AI route whose storage read has rejected: it
\* answers 500 and the service is not called
ReadRejected(i, route, failure) ==
    /\ inv' = [inv EXCEPT ![i] = Done]
    /\ res' = [route |-> route, request |-> inv[i].request.body, status |-> 500,
               json |-> [message |-> failure, error |-> "storage"], reads |-> 0]
    /\ last' = NoStep
    /\ UNCHANGED <<cache, now, lastOp, origin, apiKey, lastSweep, messages, prototypes, fp,
                   handlers>>

\* res.json(...) or res.status(500).json(...) for the way the service ended,
\* nothing while it waits for the API; reads counts the storage reads issued
\* in the step
respond(route, body, outcome, okJson, failure, reads) ==
    [route |-> route, request |-> body, reads |-> reads,
     status |-> IF outcome.status = "returned" THEN 200
                ELSE IF outcome.status = "threw" THEN 500 ELSE 0,
     json |-> IF outcome.status = "returned" THEN okJson
              ELSE IF outcome.status = "threw"
                   THEN [message |-> failure, error |-> outcome.error]
                   ELSE Null]

\* res.status(400).json({ message: "Prompt is required" })
promptRequired(route, body) ==
    [route |-> route, request |-> body, status |-> 400,
     json |-> [message |-> "Prompt is required"], reads |-> 0]

\* the slot the handler of a request to a storage route takes: the first
\* free one
FreeSlot(h) ==
    /\ handlers[h].pc = "idle"
    /\ \A g \in 1..MaxHandlers : g < h => handlers[g].pc # "idle"

\* a handler of a storage route gives control back at the await of its
\* storage call, whose query the database has run (ok) or has failed; the
\* handler goes on at pc with the row the query has given
AwaitQuery(h, route, request, caller, ok, pc, row, reads) ==
    /\ handlers' = [handlers EXCEPT
                       ![h] = [route |-> route, request |-> request, caller |-> caller,
                               pc |-> IF ok THEN pc ELSE "threw",
                               row |-> IF ok THEN row ELSE Null]]
    /\ res' = [route |-> route, request |-> request, status |-> 0, json |-> Null,
               reads |-> reads]
    /\ last' = NoStep
    /\ UNCHANGED <<cache, now, lastOp, origin, inv, apiKey, lastSweep, fp>>

\* POST /api/messages with a body that insertMessageSchema accepts, up to the
\* await in storage.createMessage of the insert
PostMessage(h, data, caller, ok) ==
    LET table == createMessage(messages, data)
    IN  /\ FreeSlot(h)
        /\ messages' = IF ok THEN table ELSE messages
        /\ AwaitQuery(h, "/api/messages", data, caller, ok, "inserted",
                      CHOOSE r \in table : r \notin messages, 0)
        /\ UNCHANGED prototypes

\* storage.createMessage from the insert on, up to the await of the update
\* of the conversation's updatedAt: the message is stored whether the update
\* fails or not
MessageInserted(h, ok) ==
    /\ handlers[h].pc = "inserted"
    /\ handlers' = [handlers EXCEPT ![h].pc = IF ok THEN "returning" ELSE "threw"]
    /\ res' = [route |-> handlers[h].route, request |-> handlers[h].request,
               status |-> 0, json |-> Null, reads |-> 0]
    /\ last' = NoStep
    /\ UNCHANGED <<cache, now, lastOp, origin, inv, apiKey, lastSweep,
                   messages, prototypes, fp>>

\* POST /api/messages with the conversation's next turn, a user turn and an
\* assistant turn in alternation
PostMessages(h, conversationId, ok) ==
    LET mine == {r \in messages : r.conversationId = conversationId}
        data == [conversationId |-> conversationId,
                 role |-> IF Cardinality(mine) % 2 = 0 THEN RoleUser ELSE RoleAssistant,
                 content |-> <<Alphabet[Cardinality(mine) + 1]>>]
    IN  /\ Cardinality(messages) < MaxMessages
        /\ PostMessage(h, data, 0, ok)

\* POST /api/prototypes with a body that insertPrototypeSchema accepts, up to
\* the await of storage.createPrototype
PostPrototype(h, data, caller, ok) ==
    LET table == createPrototype(prototypes, data)
    IN  /\ FreeSlot(h)
        /\ prototypes' = IF ok THEN table ELSE prototypes
        /\ AwaitQuery(h, "/api/prototypes", data, caller, ok, "returning",
                      CHOOSE r \in table : r \notin prototypes, 0)
        /\ UNCHANGED messages

\* POST /api/prototypes for a conversation, whether it has a prototype or
\* not: a page first, then pages of white space
PostPrototypes(h, conversationId, ok) ==
    LET data == [conversationId |-> conversationId,
                 htmlContent |-> IF prototypes = {} THEN Page1 ELSE BlankPage]
    IN  /\ Cardinality(prototypes) < MaxPrototypes
        /\ PostPrototype(h, data, 0, ok)

\* PUT /api/prototypes/:id with a body that the partial schema accepts, up to
\* the await of storage.updatePrototype: the row updated, undefined when no
\* row has the id
PutPrototype(h, id, data, caller, ok) ==
    LET table == updatePrototype(prototypes, id, data)
    IN  /\ FreeSlot(h)
        /\ prototypes' = IF ok THEN table ELSE prototypes
        /\ AwaitQuery(h, "/api/prototypes/:id", data, caller, ok, "returning",
                      IF \E r \in table : r.id = id
                      THEN CHOOSE r \in table : r.id = id ELSE NoRow, 0)
        /\ UNCHANGED messages

\* PUT /api/prototypes/:id from any caller, whether a row has the id or not:
\* the markup of the row is replaced by the other of the two pages
PutPrototypes(h, id, ok) ==
    LET rows == {r \in prototypes : r.id = id}
        data == [htmlContent |-> IF \E r \in rows : r.htmlContent = Page1
                                 THEN BlankPage ELSE Page1]
    IN  PutPrototype(h, id, data, 0, ok)

\* content.slice(0, 50) + '...'
titleOf(content) == SliceTo(content, 50) \o <<".", ".", ".">>

\* POST /api/conversations with a title, up to the await of
\* storage.createConversation: the row gets the id
PostConversation(h, id, data, caller, ok) ==
    /\ FreeSlot(h)
    /\ AwaitQuery(h, "/api/conversations", data, caller, ok, "returning",
                  [id |-> id, title |-> data.title], 0)
    /\ UNCHANGED <<messages, prototypes>>

\* GET /api/conversations/:id/prototype up to the await of
\* storage.getPrototypeByConversationId: the row the select gives, undefined
\* without one
GetPrototype(h, conversationId, existingPrototype, caller, ok) ==
    /\ FreeSlot(h)
    /\ existingPrototype \in getPrototypeByConversationId(prototypes, conversationId)
    /\ AwaitQuery(h, "/api/conversations/:id/prototype", Null, caller, ok,
                  "returning", existingPrototype, 1)
    /\ UNCHANGED <<messages, prototypes>>

\* the response of a storage route for the way its storage call has ended:
\* the catch of the handler, the 404 without a row, or res.json(row)
storageResponse(handler) ==
    LET failure ==
            CASE handler.route = "/api/conversations" -> "Invalid conversation data"
              [] handler.route = "/api/messages" -> "Invalid message data"
              [] handler.route = "/api/conversations/:id/prototype" ->
                    "Failed to fetch prototype"
              [] OTHER -> "Invalid prototype data"
    IN  [route |-> handler.route, request |-> handler.request, reads |-> 0,
         status |-> IF handler.pc = "threw"
                    THEN IF handler.route = "/api/conversations/:id/prototype"
                         THEN 500 ELSE 400
                    ELSE IF handler.row = NoRow THEN 404 ELSE 200,
         json |-> IF handler.pc = "threw"
                  THEN [message |-> failure, error |-> "storage"]
                  ELSE IF handler.row = NoRow
                       THEN [message |-> "Prototype not found"]
                       ELSE handler.row]

\* a handler of a storage route from the end of its storage call on: it
\* answers
AnswerStorage(h) ==
    /\ handlers[h].pc \in {"returning", "threw"}
    /\ res' = storageResponse(handlers[h])
    /\ handlers' = [handlers EXCEPT ![h] = NoHandler]
    /\ last' = NoStep
    /\ UNCHANGED <<cache, now, lastOp, origin, inv, apiKey, lastSweep,
                   messages, prototypes, fp>>

\* POST /api/generate-code up to the handler's first await: the 400, the read
\* of the messages or, without a conversation, the call of generateCode
PostGenerateCode(i, body) ==
    IF body.prompt = UndefinedStr \/ body.prompt = << >>
    THEN /\ res' = promptRequired("/api/generate-code", body)
         /\ last' = NoStep
         /\ UNCHANGED <<cache, now, lastOp, origin, inv, apiKey, lastSweep,
                        messages, prototypes, fp, handlers>>
    ELSE IF body.conversationId = Undefined
    THEN LET request == [prompt |-> body.prompt,
                         conversationHistory |-> routeHistory(messages, body.conversationId),
                         currentPrototype |-> UndefinedStr]
             h == generateCodeHead(cache, request, apiKey, now)
         IN  /\ Call(i, "generateCode", request,
                     IF apiKey THEN codeCacheKey(request) ELSE << >>,
                     h, codeApiRequest(request))
             /\ res' = respond("/api/generate-code", body, h.outcome, h.outcome.value,
                               "Failed to generate code",
                               storageReads("/api/generate-code", body))
             /\ UNCHANGED <<messages, prototypes, fp, handlers>>
    ELSE /\ CanStart(i)
         /\ AwaitStorage(i, Reading("readingMessages", "generateCode", body,
                                    routeHistory(messages, body.conversationId),
                                    UndefinedStr),
                         "/api/generate-code")

\* POST /api/generate-code from the end of the read of the messages on: to
\* the next await, the read of the conversation's prototype, or to the catch
\* when the read has rejected
GenerateCodeGotMessages(i, ok) ==
    /\ inv[i].pc = "readingMessages"
    /\ inv[i].fn = "generateCode"
    /\ IF ok
       THEN \E currentPrototype \in
                  routePrototype(prototypes, inv[i].request.body.conversationId) :
               AwaitStorage(i, Reading("readingPrototype", "generateCode",
                                       inv[i].request.body,
                                       inv[i].request.conversationHistory,
                                       currentPrototype),
                            "/api/generate-code")
       ELSE ReadRejected(i, "/api/generate-code", "Failed to generate code")

\* POST /api/generate-code from the end of the read of the prototype on: to
\* the await of generateCode, to the response when generateCode ends without
\* the API, or to the catch when the read has rejected
GenerateCodeGotPrototype(i, ok) ==
    LET request == [prompt |-> inv[i].request.body.prompt,
                    conversationHistory |-> inv[i].request.conversationHistory,
                    currentPrototype |-> inv[i].request.currentPrototype]
        h == generateCodeHead(cache, request, apiKey, now)
    IN  /\ inv[i].pc = "readingPrototype"
        /\ inv[i].fn = "generateCode"
        /\ IF ok
           THEN /\ RunToAwait(i, "generateCode", request,
                              IF apiKey THEN codeCacheKey(request) ELSE << >>,
                              h, codeApiRequest(request))
                /\ res' = respond("/api/generate-code", inv[i].request.body, h.outcome,
                                  h.outcome.value, "Failed to generate code", 0)
                /\ UNCHANGED <<messages, prototypes, fp, handlers>>
           ELSE ReadRejected(i, "/api/generate-code", "Failed to generate code")

\* POST /api/generate-code from the answer of the API on
AnswerGenerateCode(i, response) ==
    LET tl == generateCodeTail(cache, inv[i].cacheKey, response, now)
    IN  /\ Return(i, "generateCode", response, tl)
        /\ res' = respond("/api/generate-code", Null, tl.outcome, tl.outcome.value,
                          "Failed to generate code", 0)
        /\ UNCHANGED <<messages, prototypes, fp, handlers>>

\* a chat handler that loads the history before it looks at the prompt
PostChat_ReadsHistoryFirst(i, body) ==
    IF body.conversationId # Undefined
    THEN /\ CanStart(i)
         /\ AwaitStorage(i, Reading("readingMessages", "generateChatResponse", body,
                                    routeHistory(messages, body.conversationId),
                                    UndefinedStr),
                         "/api/chat")
    ELSE IF body.prompt = UndefinedStr \/ body.prompt = << >>
    THEN /\ res' = promptRequired("/api/chat", body)
         /\ last' = NoStep
         /\ UNCHANGED <<cache, now, lastOp, origin, inv, apiKey, lastSweep,
                        messages, prototypes, fp, handlers>>
    ELSE LET request == [prompt |-> body.prompt,
                         conversationHistory |-> routeHistory(messages, body.conversationId)]
             h == generateChatResponseHead(cache, request, apiKey, now)
         IN  /\ Call(i, "generateChatResponse", request,
                     IF apiKey THEN chatCacheKey(request) ELSE << >>,
                     h, chatApiRequest(request))
             /\ res' = respond("/api/chat", body, h.outcome, [response |-> h.outcome.value],
                               "Failed to generate chat response",
                               storageReads("/api/chat", body))
             /\ UNCHANGED <<messages, prototypes, fp, handlers>>

\* POST /api/chat up to the handler's first await: the 400, the read of the
\* messages or, without a conversation, the call of generateChatResponse
PostChat(i, body) ==
    IF body.prompt = UndefinedStr \/ body.prompt = << >>
    THEN /\ res' = promptRequired("/api/chat", body)
         /\ last' = NoStep
         /\ UNCHANGED <<cache, now, lastOp, origin, inv, apiKey, lastSweep,
                        messages, prototypes, fp, handlers>>
    ELSE IF body.conversationId = Undefined
    THEN LET request == [prompt |-> body.prompt,
                         conversationHistory |-> routeHistory(messages, body.conversationId)]
             h == generateChatResponseHead(cache, request, apiKey, now)
         IN  /\ Call(i, "generateChatResponse", request,
                     IF apiKey THEN chatCacheKey(request) ELSE << >>,
                     h, chatApiRequest(request))
             /\ res' = respond("/api/chat", body, h.outcome, [response |-> h.outcome.value],
                               "Failed to generate chat response",
                               storageReads("/api/chat", body))
             /\ UNCHANGED <<messages, prototypes, fp, handlers>>
    ELSE /\ CanStart(i)
         /\ AwaitStorage(i, Reading("readingMessages", "generateChatResponse", body,
                                    routeHistory(messages, body.conversationId),
                                    UndefinedStr),
                         "/api/chat")

\* POST /api/chat from the end of the read of the messages on: to the await
\* of generateChatResponse, to the response when it ends without the API, or
\* to the catch when the read has rejected
ChatGotMessages(i, ok) ==
    LET request == [prompt |-> inv[i].request.body.prompt,
                    conversationHistory |-> inv[i].request.conversationHistory]
        h == generateChatResponseHead(cache, request, apiKey, now)
    IN  /\ inv[i].pc = "readingMessages"
        /\ inv[i].fn = "generateChatResponse"
        /\ IF ok
           THEN /\ RunToAwait(i, "generateChatResponse", request,
                              IF apiKey THEN chatCacheKey(request) ELSE << >>,
                              h, chatApiRequest(request))
                /\ res' = respond("/api/chat", inv[i].request.body, h.outcome,
                                  [response |-> h.outcome.value],
                                  "Failed to generate chat response", 0)
                /\ UNCHANGED <<messages, prototypes, fp, handlers>>
           ELSE ReadRejected(i, "/api/chat", "Failed to generate chat response")

\* POST /api/chat from the answer of the API on
AnswerChat(i, response) ==
    LET tl == generateChatResponseTail(cache, inv[i].cacheKey, response, now)
    IN  /\ Return(i, "generateChatResponse", response, tl)
        /\ res' = respond("/api/chat", Null, tl.outcome, [response |-> tl.outcome.value],
                          "Failed to generate chat response", 0)
        /\ UNCHANGED <<messages, prototypes, fp, handlers>>

\* the writes of the rows of a prototypes table: updatedAt counts them
writes(table) ==
    LET sum[rows \in SUBSET table] ==
            IF rows = {} THEN 0
            ELSE LET r == CHOOSE q \in rows : TRUE
                 IN  r.updatedAt + sum[rows \ {r}]
    IN  sum[table]

\* the work of the routes since the server started, four steps for every
\* request (the messages stored, the writes of prototypes, the handlers of
\* the storage routes in flight that have not written: their call has failed
\* or has found no row, or it reads, or it creates a conversation, and the
\* handlers of the AI routes that got a prompt) and one for the clock once it
\* has moved; a request without a prompt is not counted, and is taken while
\* the run has room for a step
RouteWork ==
    4 * ((Cardinality(messages) - Cardinality(StoredTurns))
         + writes(prototypes)
         + Cardinality({h \in 1..MaxHandlers :
                           \/ handlers[h].pc = "threw"
                           \/ handlers[h].row = NoRow
                           \/ handlers[h].route \in {"/api/conversations",
                                                    "/api/conversations/:id/prototype"}})
         + Cardinality({i \in 1..MaxInv : inv[i].pc # "idle"}))
    + (IF now > 0 THEN 1 ELSE 0)

\* the run has room for a request with this many steps
MayRoute(units) == RouteWork + units <= MaxRouteWork

\* the requests of the routes, from any caller, and the steps of their
\* handlers, in any order, while the clock moves and the cleanup timer runs:
\* the browser's hook stays as it is
NextRoutes ==
    \/ /\ MayRoute(4)
       /\ \E h \in 1..MaxHandlers, ok \in BOOLEAN :
             /\ PostConversation(h, "c3", [title |-> titleOf(Prompt1)], 0, ok)
             /\ UNCHANGED client
    \/ /\ MayRoute(4)
       /\ \E h \in 1..MaxHandlers, ok \in BOOLEAN :
             PostMessages(h, "c1", ok) /\ UNCHANGED client
    \/ \E h \in 1..MaxHandlers, ok \in BOOLEAN :
          /\ ok \/ MayRoute(4)
          /\ MessageInserted(h, ok) /\ UNCHANGED client
    \/ /\ MayRoute(4)
       /\ \E h \in 1..MaxHandlers, ok \in BOOLEAN :
             PostPrototypes(h, "c1", ok) /\ UNCHANGED client
    \/ /\ MayRoute(4)
       /\ \E h \in 1..MaxHandlers, id \in 1..MaxPrototypes, ok \in BOOLEAN :
             PutPrototypes(h, id, ok) /\ UNCHANGED client
    \/ /\ MayRoute(4)
       /\ \E h \in 1..MaxHandlers, ok \in BOOLEAN :
             \E existingPrototype \in getPrototypeByConversationId(prototypes, "c1") :
                /\ GetPrototype(h, "c1", existingPrototype, 0, ok)
                /\ UNCHANGED client
    \/ \E h \in 1..MaxHandlers : AnswerStorage(h) /\ UNCHANGED client
    \/ \E body \in RouteBodies :
          \E i \in IF body.prompt \in {UndefinedStr, << >>} THEN {1} ELSE 1..MaxInv :
             /\ MayRoute(IF body.prompt \in {UndefinedStr, << >>} THEN 1 ELSE 4)
             /\ PostGenerateCode(i, body) /\ UNCHANGED client
    \/ \E i \in 1..MaxInv, ok \in BOOLEAN :
          GenerateCodeGotMessages(i, ok) /\ UNCHANGED client
    \/ \E i \in 1..MaxInv, ok \in BOOLEAN :
          GenerateCodeGotPrototype(i, ok) /\ UNCHANGED client
    \/ \E i \in 1..MaxInv, response \in RouteCodeResponses :
          AnswerGenerateCode(i, response) /\ UNCHANGED client
    \/ \E body \in RouteBodies :
          \E i \in IF body.prompt \in {UndefinedStr, << >>} THEN {1} ELSE 1..MaxInv :
             /\ MayRoute(IF body.prompt \in {UndefinedStr, << >>} THEN 1 ELSE 4)
             /\ PostChat(i, body) /\ UNCHANGED client
    \/ \E i \in 1..MaxInv, ok \in BOOLEAN :
          ChatGotMessages(i, ok) /\ UNCHANGED client
    \/ \E i \in 1..MaxInv, response \in RouteChatResponses :
          AnswerChat(i, response) /\ UNCHANGED client
    \/ MayRoute(1) /\ Tick
    \/ SweepTimer

InitRoutes ==
    /\ cache = EmptyMap
    /\ now = 0
    /\ lastOp = NoOp
    /\ origin = EmptyMap
    /\ inv = [i \in 1..MaxInv |-> Idle]
    /\ last = NoStep
    /\ apiKey \in BOOLEAN
    /\ lastSweep = 0
    /\ messages = StoredTurns
    /\ prototypes = {}
    /\ res = NoRes
    /\ fp = NoFp
    /\ client = NoClient
    /\ handlers = [h \in 1..MaxHandlers |-> NoHandler]

SpecRoutes == InitRoutes /\ [][NextRoutes]_vars

(***************************************************************************)
(* The cache keys of the two services, computed for many requests          *)
(***************************************************************************)
\* a string of n characters without white space or separators
Pad(n) == [j \in 1..n |-> "x"]

\* prompts: short ones, ones that differ in white space only, ones longer than
\* the slice that differ before or after its end, and ones with the separators
KeyPrompts ==
    {<<"a">>, Prompt1, <<"a", " ", "\n", "b">>,
     Pad(PromptSlice) \o <<"y">>, Pad(PromptSlice) \o <<"z">>,
     Pad(PromptSlice - 1) \o <<"y">>, Pad(PromptSlice - 1) \o <<"z">>,
     ChatPrefix \o <<"a">>, <<"a", "|", "u", "s", "e", "r", ":", "b">>}

Said(role, content) == [role |-> role, content |-> content]

\* histories: none, short ones, ones that differ in a role, in white space, in
\* a turn older than the last three, before or after the end of the content
\* slice, and ones whose contents hold the separators
KeyHistories ==
    {<< >>,
     <<Said(RoleUser, <<"b">>)>>,
     <<Said(RoleAssistant, <<"b">>)>>,
     <<Said(RoleUser, <<"b", " ", "c">>)>>,
     <<Said(RoleUser, <<"b", "\t", " ", "c">>)>>,
     <<Said(RoleUser, <<"b">>), Said(RoleUser, <<"c">>)>>,
     <<Said(RoleUser, <<"b", "|", "u", "s", "e", "r", ":", "c">>)>>,
     <<Turn1, Turn1, Turn2, Turn1>>,
     <<Turn2, Turn1, Turn2, Turn1>>,
     <<Said(RoleUser, Pad(ContentSlice) \o <<"y">>)>>,
     <<Said(RoleUser, Pad(ContentSlice) \o <<"z">>)>>,
     <<Said(RoleUser, Pad(ContentSlice - 1) \o <<"y">>)>>,
     <<Said(RoleUser, Pad(ContentSlice - 1) \o <<"z">>)>>}

\* the requests whose keys are computed: each prompt without history, each
\* history under one prompt, and requests that differ in the artifact only
KeyRequests ==
    {[prompt |-> p, conversationHistory |-> << >>, currentPrototype |-> UndefinedStr] :
        p \in KeyPrompts}
    \cup {[prompt |-> <<"a">>, conversationHistory |-> h, currentPrototype |-> UndefinedStr] :
        h \in KeyHistories}
    \cup {[prompt |-> <<"a">>, conversationHistory |-> h, currentPrototype |-> Page1] :
        h \in {<< >>, <<Said(RoleUser, <<"b">>)>>}}

\* generateChatResponse takes a prompt and a history only
ChatKeyRequests ==
    {[prompt |-> <<"a">>, conversationHistory |-> h, currentPrototype |-> UndefinedStr] :
        h \in {<< >>, <<Said(RoleUser, <<"b">>)>>,
                <<Said(RoleUser, <<"b">>), Said(RoleUser, <<"c">>)>>}}

\* the key under which fn looks its request up
cacheKeyOf(fn, request) ==
    IF fn = "generateCode" THEN codeCacheKey(request) ELSE chatCacheKey(request)

\* fn computes its cache key for a request
ComputeKey(fn, request) ==
    /\ fp' = [prev |-> fp.cur,
              cur  |-> [fn |-> fn,
                        prompt |-> request.prompt,
                        conversationHistory |-> request.conversationHistory,
                        artifact |-> request.currentPrototype,
                        fingerprint |-> createCacheKey(request.prompt,
                                                       request.conversationHistory),
                        key |-> cacheKeyOf(fn, request)]]
    /\ last' = NoStep
    /\ UNCHANGED <<cache, now, lastOp, origin, inv, apiKey, lastSweep,
                   messages, prototypes, res, client, handlers>>

\* the answer of the API to the chat requests: a reply
KeyChatResponses ==
    {r \in ChatResponses : r.content = "I'll update the heading."}

\* a minute passes
KeyTick ==
    /\ now < KeyMaxMinutes * MsPerMinute
    /\ now' = now + MsPerMinute
    /\ last' = NoStep
    /\ UNCHANGED <<cache, lastOp, origin, inv, apiKey, lastSweep,
                   messages, prototypes, res, fp, client, handlers>>

\* the requests generateChatResponse is called for
KeyChatCalls ==
    {[prompt |-> <<"a">>, conversationHistory |-> h] :
        h \in {<< >>, <<Said(RoleUser, <<"b">>)>>}}

\* the keys the record holds, the invocations started and the minutes passed
KeyWork ==
    (IF fp.prev.fn = "none" THEN 0 ELSE 1)
    + (IF fp.cur.fn = "none" THEN 0 ELSE 1)
    + Cardinality({i \in 1..MaxInv : inv[i].pc # "idle"})
    + (now \div MsPerMinute)

\* the keys computed for many requests while generateChatResponse is called
\* for some of them, answered by the API and the clock moves, in any order
NextKey ==
    \/ \E request \in KeyRequests :
          KeyWork < MaxKeyWork /\ ComputeKey("generateCode", request)
    \/ \E request \in ChatKeyRequests :
          KeyWork < MaxKeyWork /\ ComputeKey("generateChatResponse", request)
    \/ \E i \in 1..MaxInv, request \in KeyChatCalls :
          KeyWork < MaxKeyWork /\ CallGenerateChatResponse(i, request)
    \/ \E i \in 1..MaxInv, response \in KeyChatResponses :
          ReturnGenerateChatResponse(i, response)
    \/ KeyWork < MaxKeyWork /\ KeyTick

InitKey ==
    /\ cache = EmptyMap
    /\ now = 0
    /\ lastOp = NoOp
    /\ origin = EmptyMap
    /\ inv = [i \in 1..MaxInv |-> Idle]
    /\ last = NoStep
    /\ apiKey = TRUE
    /\ lastSweep = 0
    /\ messages = {}
    /\ prototypes = {}
    /\ res = NoRes
    /\ fp = NoFp
    /\ client = NoClient
    /\ handlers = [h \in 1..MaxHandlers |-> NoHandler]

SpecKey == InitKey /\ [][NextKey]_vars

(***************************************************************************)
(* The browser's chat hook.  The hook starts without a conversation and    *)
(* creates one with its first submission.  It does not wait for a          *)
(* submission to end before it takes the next: the submissions run side by *)
(* side, each through its own requests, and share the hook's conversation, *)
(* its error and the toast.  A request is sent in one step, handled by the *)
(* server in another, and the hook goes on in a third, when the response   *)
(* has reached it.                                                         *)
(***************************************************************************)
\* the ids gen_random_uuid() gives to the conversations created for the
\* submissions, one for each
NewConversationIds == <<"c1", "c3", "c4", "c5">>

\* the characters of the strings the API answers with
Chars(s) ==
    CASE s = "<h1>" -> <<"<", "h", "1", ">">>
      [] s = "ok" -> <<"o", "k">>
      [] s = "need" -> <<"n", "e", "e", "d">>
      [] s = "name?" -> <<"n", "a", "m", "e", "?">>
      [] s = "I'll update the heading." ->
            <<"I", "'", "l", "l", " ", "u", "p", "d", "a", "t", "e", " ",
              "t", "h", "e", " ", "h", "e", "a", "d", "i", "n", "g", ".">>
      [] OTHER -> <<s>>

\* `${value}`: the string, "undefined" for a missing property
Template(value) ==
    IF value = Undefined
    THEN <<"u", "n", "d", "e", "f", "i", "n", "e", "d">>
    ELSE Chars(value)

\* what the API answers to the requests of the hook: an error, a page, or a
\* question without a page
ClientCodeResponses ==
    {[kind |-> "rejected", content |-> NullContent, message |-> "429 rate limit"],
     [kind |-> "resolved", content |-> JsonPage1, message |-> ""],
     [kind |-> "resolved", content |-> JsonQuestion, message |-> ""]}

\* apiRequest rejects when the response is not ok
apiRequestThrows(response) == response.status >= 400

\* codeResult.question && !codeResult.html
asksForInput(codeResult) ==
    /\ codeResult.question # Undefined
    /\ codeResult.question # ""
    /\ (codeResult.html = Undefined \/ codeResult.html = "")

\* the server's steps leave the hook as it is, the hook's steps the server
HookOnly ==
    UNCHANGED <<cache, now, lastOp, origin, inv, last, apiKey, lastSweep,
                messages, prototypes, res, fp, handlers>>

\* the hook with submission k changed to f
WithFlow(k, f) == [client EXCEPT !.flows[k] = f]

\* submission k has sent the request it awaits at pc and the server has not
\* taken it yet
Waits(k, pc) ==
    /\ client.flows[k].pc = pc
    /\ client.flows[k].request = "sent"

\* the response to the request submission k awaits at pc has reached the hook
Arrived(k, pc) ==
    /\ client.flows[k].pc = pc
    /\ client.flows[k].request = "answered"

\* submission f sends a request and awaits its response at pc
Sends(f, pc) ==
    [f EXCEPT !.pc = pc, !.request = "sent", !.response = NoRes, !.slot = 0,
              !.requests = @ + 1]

\* submission f has ended
Ends(f, pc) == [f EXCEPT !.pc = pc, !.request = "none"]

\* the server has taken the request of submission k, which waits for the
\* response; failed tells that the storage call of the handler has thrown
Handled(k, failed) ==
    [client EXCEPT !.flows[k].request = "handling",
                   !.failures = IF failed THEN @ + 1 ELSE @]

\* the response of a storage route is on its way to the submission that has
\* sent the request
Answered(h, response) ==
    [client EXCEPT !.flows[handlers[h].caller].request = "answered",
                   !.flows[handlers[h].caller].response = response]

\* generateCode(prompt) or sendMessage(content) is called, whatever the
\* earlier submissions are doing: without a conversation it asks for one,
\* with one it posts the user's message; before is the persisted state at that
\* moment
Submit(flow, prompt) ==
    LET k == client.submits + 1
        f == [NoFlow EXCEPT !.flow = flow, !.prompt = prompt,
                            !.before = [messages |-> messages,
                                        prototypes |-> prototypes],
                            !.conversationId = client.conversation.id]
    IN  /\ client.submits < MaxSubmits
        /\ client' = [client EXCEPT
                         !.flows[k] = Sends(f, IF client.conversation.id = Undefined
                                               THEN "creating" ELSE "savingUser"),
                         !.submits = k]
        /\ HookOnly

\* the server takes the POST /api/conversations of submission k
HandleCreateConversation(k, ok) ==
    LET data == [title |-> titleOf(client.flows[k].prompt)]
    IN  /\ Waits(k, "creating")
        /\ \E h \in 1..MaxHandlers :
              PostConversation(h, NewConversationIds[k], data, k, ok)
        /\ client' = Handled(k, ~ok)

\* createConversationMutation.onSuccess and the callback that awaited it: the
\* hook has the new conversation open and the user's message is posted to it
ConversationCreated(k) ==
    LET id == client.flows[k].response.json.id
    IN  /\ Arrived(k, "creating")
        /\ ~apiRequestThrows(client.flows[k].response)
        /\ client' = [WithFlow(k, Sends([client.flows[k] EXCEPT !.conversationId = id],
                                        "savingUser"))
                         EXCEPT !.conversation.id = id]
        /\ HookOnly

\* createConversationMutation.onError: the callback ends with the rejection
CreateConversationFailed(k) ==
    /\ Arrived(k, "creating")
    /\ apiRequestThrows(client.flows[k].response)
    /\ client' = [WithFlow(k, Ends(client.flows[k], "failed"))
                     EXCEPT !.error = "Failed to create conversation"]
    /\ HookOnly

\* the message submission f has sent and awaits the response to
messageOf(f) ==
    [conversationId |-> IF f.pc \in {"savingQuestion", "savingExplanation"}
                        THEN f.seen ELSE f.conversationId,
     role |-> IF f.pc = "savingUser" THEN RoleUser ELSE RoleAssistant,
     content |-> CASE f.pc = "savingUser" -> f.prompt
                   [] f.pc = "savingQuestion" -> Chars(f.result.question)
                   [] f.pc = "savingExplanation" -> Template(f.result.explanation)
                   [] OTHER -> Chars(f.result.response.str)]

\* the server takes the POST /api/messages of submission k
HandleMessage(k, ok) ==
    /\ client.flows[k].pc \in {"savingUser", "savingQuestion", "savingExplanation",
                               "savingReply"}
    /\ client.flows[k].request = "sent"
    /\ \E h \in 1..MaxHandlers : PostMessage(h, messageOf(client.flows[k]), k, ok)
    /\ client' = Handled(k, ~ok)

\* generateCode: the POST of the user's message has thrown; the callback ends
\* with the rejection and the hook shows nothing
SaveUserMessageFailed(k) ==
    /\ Arrived(k, "savingUser")
    /\ client.flows[k].flow = "code"
    /\ apiRequestThrows(client.flows[k].response)
    /\ client' = WithFlow(k, Ends(client.flows[k], "failed"))
    /\ HookOnly

\* generateCodeMutation.mutateAsync: onMutate shows the toast and mutationFn
\* sends POST /api/generate-code.  The mutation before it, if it still waits
\* for its result, keeps the callbacks of the hook as rendered now
SendGenerateCode(k) ==
    /\ Arrived(k, "savingUser")
    /\ client.flows[k].flow = "code"
    /\ ~apiRequestThrows(client.flows[k].response)
    /\ client' = [client EXCEPT
                     !.flows = [j \in 1..MaxSubmits |->
                                   IF j = k THEN Sends(client.flows[k], "generating")
                                   ELSE IF j = client.mutation
                                           /\ client.flows[j].pc = "generating"
                                        THEN [client.flows[j] EXCEPT
                                                 !.seen = client.conversation.id]
                                        ELSE client.flows[j]],
                     !.toast = "Generating...",
                     !.mutation = k]
    /\ HookOnly

\* sendMessageMutation.mutationFn after the user's message: POST /api/chat
SendChat(k) ==
    /\ Arrived(k, "savingUser")
    /\ client.flows[k].flow = "chat"
    /\ ~apiRequestThrows(client.flows[k].response)
    /\ client' = WithFlow(k, Sends(client.flows[k], "chatting"))
    /\ HookOnly

\* handler i has taken the request of a submission: it has answered, or the
\* submission waits for its answer
Taken(f, i, response) ==
    [f EXCEPT !.request = IF response.status = 0 THEN "handling" ELSE "answered",
              !.response = response,
              !.slot = i]

\* the response of handler i is on its way to the submission that waits for it
Deliver(i, response) ==
    [client EXCEPT
        !.flows = [k \in 1..MaxSubmits |->
                      IF /\ client.flows[k].request = "handling"
                         /\ client.flows[k].slot = i
                         /\ response.status # 0
                      THEN [client.flows[k] EXCEPT !.request = "answered",
                                                   !.response = response]
                      ELSE client.flows[k]]]

\* the server takes the POST /api/generate-code of submission k
HandleGenerateCode(k) ==
    /\ Waits(k, "generating")
    /\ \E i \in 1..MaxInv :
          /\ PostGenerateCode(i, [prompt |-> client.flows[k].prompt,
                                  conversationId |-> client.flows[k].conversationId])
          /\ client' = WithFlow(k, Taken(client.flows[k], i, res'))

\* the server takes the POST /api/chat of submission k
HandleChat(k) ==
    /\ Waits(k, "chatting")
    /\ \E i \in 1..MaxInv :
          /\ PostChat(i, [prompt |-> client.flows[k].prompt,
                          conversationId |-> client.flows[k].conversationId])
          /\ client' = WithFlow(k, Taken(client.flows[k], i, res'))

\* onError of the mutation of submission k: its mutationFn has thrown, or the
\* onSuccess of generateCodeMutation has, outside its try; the error is shown
OnError(k) ==
    /\ client.flows[k].pc \in
          IF client.flows[k].flow = "code"
          THEN {"generating", "savingQuestion"}
          ELSE {"savingUser", "chatting", "savingReply"}
    /\ client.flows[k].request = "answered"
    /\ apiRequestThrows(client.flows[k].response)
    /\ client' = [WithFlow(k, Ends(client.flows[k], "failed")) EXCEPT
                     !.error = IF client.flows[k].flow = "code"
                               THEN "Failed to generate code"
                               ELSE "Failed to send message",
                     !.toast = IF client.flows[k].flow = "code"
                               THEN "Generation failed" ELSE @]
    /\ HookOnly

\* conversation.id as the onSuccess of submission k reads it: the hook's
\* conversation for the latest mutation, which follows the renders of the
\* hook, and the one it kept when the next was started for an earlier one
conversationSeen(k) ==
    IF client.mutation = k THEN client.conversation.id ELSE client.flows[k].seen

\* the result of POST /api/generate-code has reached submission k
GotResult(k) ==
    /\ Arrived(k, "generating")
    /\ ~apiRequestThrows(client.flows[k].response)

\* submission k in its onSuccess, with the result and the conversation
InOnSuccess(k) ==
    [client.flows[k] EXCEPT !.result = client.flows[k].response.json,
                            !.seen = conversationSeen(k)]

\* generateCodeMutation.onSuccess without a conversation: it returns
OnSuccessNoConversation(k) ==
    /\ GotResult(k)
    /\ conversationSeen(k) = Undefined
    /\ client' = WithFlow(k, Ends(InOnSuccess(k), "returned"))
    /\ HookOnly

\* generateCodeMutation.onSuccess for a question without markup: it posts the
\* question as a message of the assistant
OnSuccessQuestion(k) ==
    /\ GotResult(k)
    /\ conversationSeen(k) # Undefined
    /\ asksForInput(client.flows[k].response.json)
    /\ client' = WithFlow(k, Sends(InOnSuccess(k), "savingQuestion"))
    /\ HookOnly

\* generateCodeMutation.onSuccess after the question is stored
OnSuccessQuestionSaved(k) ==
    /\ Arrived(k, "savingQuestion")
    /\ ~apiRequestThrows(client.flows[k].response)
    /\ client' = [WithFlow(k, Ends(client.flows[k], "done")) EXCEPT
                     !.error = "", !.toast = "Response received"]
    /\ HookOnly

\* generateCodeMutation.onSuccess otherwise, up to the await of fetchQuery:
\* the lookup of the conversation's prototype
OnSuccessFetchPrototype(k) ==
    /\ GotResult(k)
    /\ conversationSeen(k) # Undefined
    /\ ~asksForInput(client.flows[k].response.json)
    /\ client' = WithFlow(k, Sends(InOnSuccess(k), "fetching"))
    /\ HookOnly

\* the server takes the lookup of submission k
HandleGetPrototype(k, ok) ==
    /\ Waits(k, "fetching")
    /\ \E h \in 1..MaxHandlers, existingPrototype \in
             getPrototypeByConversationId(prototypes, client.flows[k].seen) :
          GetPrototype(h, client.flows[k].seen, existingPrototype, k, ok)
    /\ client' = Handled(k, ~ok)

\* generateCodeMutation.onSuccess from the lookup on: null when the lookup
\* has failed; the prototype found is updated, or one is created
OnSuccessSavePrototype(k) ==
    LET existingPrototype == IF apiRequestThrows(client.flows[k].response)
                             THEN NoRow ELSE client.flows[k].response.json
    IN  /\ Arrived(k, "fetching")
        /\ client' = WithFlow(k, Sends([client.flows[k] EXCEPT
                                           !.existingPrototype = existingPrototype],
                                       "savingPrototype"))
        /\ HookOnly

\* the server takes the PUT /api/prototypes/:id or POST /api/prototypes of
\* submission k
HandleSavePrototype(k, ok) ==
    LET f == client.flows[k]
        post == [conversationId |-> f.seen, htmlContent |-> Chars(f.result.html)]
        put == [htmlContent |-> Chars(f.result.html)]
    IN  /\ Waits(k, "savingPrototype")
        /\ \E h \in 1..MaxHandlers :
              IF f.existingPrototype # NoRow
              THEN PutPrototype(h, f.existingPrototype.id, put, k, ok)
              ELSE PostPrototype(h, post, k, ok)
        /\ client' = Handled(k, ~ok)

\* generateCodeMutation.onSuccess, after the prototype is saved: it posts the
\* explanation as a message of the assistant
OnSuccessSaveExplanation(k) ==
    /\ Arrived(k, "savingPrototype")
    /\ ~apiRequestThrows(client.flows[k].response)
    /\ client' = WithFlow(k, Sends(client.flows[k], "savingExplanation"))
    /\ HookOnly

\* generateCodeMutation.onSuccess after the explanation is stored
OnSuccessComplete(k) ==
    /\ Arrived(k, "savingExplanation")
    /\ ~apiRequestThrows(client.flows[k].response)
    /\ client' = [WithFlow(k, Ends(client.flows[k], "done")) EXCEPT
                     !.error = "", !.toast = "Generation complete!"]
    /\ HookOnly

\* the catch of generateCodeMutation.onSuccess: the save of the prototype or
\* the POST of the explanation has thrown
OnSuccessSaveFailed(k) ==
    /\ client.flows[k].pc \in {"savingPrototype", "savingExplanation"}
    /\ client.flows[k].request = "answered"
    /\ apiRequestThrows(client.flows[k].response)
    /\ client' = [WithFlow(k, Ends(client.flows[k], "saveFailed")) EXCEPT
                     !.error = "Generated code but failed to save prototype",
                     !.toast = "Generation failed"]
    /\ HookOnly

\* sendMessageMutation.mutationFn after the chat response: it posts the reply
\* as a message of the assistant
SaveChatReply(k) ==
    /\ Arrived(k, "chatting")
    /\ ~apiRequestThrows(client.flows[k].response)
    /\ client' = WithFlow(k, Sends([client.flows[k] EXCEPT
                                       !.result = client.flows[k].response.json],
                                   "savingReply"))
    /\ HookOnly

\* sendMessageMutation.onSuccess, after the reply is stored
OnSuccessSendMessage(k) ==
    /\ Arrived(k, "savingReply")
    /\ ~apiRequestThrows(client.flows[k].response)
    /\ client' = [WithFlow(k, Ends(client.flows[k], "done")) EXCEPT !.error = ""]
    /\ HookOnly

\* createNewConversation(): the hook has no conversation and no error
createNewConversation ==
    /\ client' = [client EXCEPT !.conversation.id = Undefined,
                                !.error = "",
                                !.cleared = @ + 1]
    /\ HookOnly

\* the work of the hook and of the storage in a run: every submission counts
\* for six, every request sent for one, every conversation cleared for two,
\* every request at which the storage throws for one, and the clock, once it
\* has moved, for nine
HookWork ==
    LET sent[k \in 0..MaxSubmits] ==
            IF k = 0 THEN 0 ELSE client.flows[k].requests + sent[k - 1]
    IN  sent[MaxSubmits] + 6 * client.submits + 2 * client.cleared
        + client.failures + (IF now > 0 THEN 9 ELSE 0)

\* the run has room for a step with this much work
MayWork(units) == HookWork + units <= MaxHookWork

\* the hook may send one more request
MaySend == MayWork(1)

\* the storage may throw once more
MayThrow(ok) == ok \/ (client.failures < MaxFailures /\ MayWork(1))

\* the hook's submissions, the handlers of their requests and the
\* continuations of the hook on their responses, in any order
NextClient ==
    \/ \E flow \in {"code", "chat"} : MayWork(7) /\ Submit(flow, Prompt1)
    \/ MayWork(2) /\ createNewConversation
    \/ \E k \in 1..MaxSubmits, ok \in BOOLEAN :
          MayThrow(ok) /\ HandleCreateConversation(k, ok)
    \/ \E k \in 1..MaxSubmits : MaySend /\ ConversationCreated(k)
    \/ \E k \in 1..MaxSubmits : CreateConversationFailed(k)
    \/ \E k \in 1..MaxSubmits, ok \in BOOLEAN : MayThrow(ok) /\ HandleMessage(k, ok)
    \/ \E h \in 1..MaxHandlers, ok \in BOOLEAN :
          /\ MayThrow(ok)
          /\ MessageInserted(h, ok)
          /\ client' = [client EXCEPT !.failures = IF ok THEN @ ELSE @ + 1]
    \/ \E h \in 1..MaxHandlers : AnswerStorage(h) /\ client' = Answered(h, res')
    \/ \E k \in 1..MaxSubmits : SaveUserMessageFailed(k)
    \/ \E k \in 1..MaxSubmits : MaySend /\ SendGenerateCode(k)
    \/ \E k \in 1..MaxSubmits : HandleGenerateCode(k)
    \/ \E i \in 1..MaxInv, ok \in BOOLEAN :
          /\ MayThrow(ok)
          /\ GenerateCodeGotMessages(i, ok)
          /\ client' = [Deliver(i, res') EXCEPT
                            !.failures = IF ok THEN @ ELSE @ + 1]
    \/ \E i \in 1..MaxInv, ok \in BOOLEAN :
          /\ MayThrow(ok)
          /\ GenerateCodeGotPrototype(i, ok)
          /\ client' = [Deliver(i, res') EXCEPT
                            !.failures = IF ok THEN @ ELSE @ + 1]
    \/ \E i \in 1..MaxInv, response \in ClientCodeResponses :
          AnswerGenerateCode(i, response) /\ client' = Deliver(i, res')
    \/ \E k \in 1..MaxSubmits : MaySend /\ SendChat(k)
    \/ \E k \in 1..MaxSubmits : HandleChat(k)
    \/ \E i \in 1..MaxInv, ok \in BOOLEAN :
          /\ MayThrow(ok)
          /\ ChatGotMessages(i, ok)
          /\ client' = [Deliver(i, res') EXCEPT
                            !.failures = IF ok THEN @ ELSE @ + 1]
    \/ \E i \in 1..MaxInv, response \in RouteChatResponses :
          AnswerChat(i, response) /\ client' = Deliver(i, res')
    \/ \E k \in 1..MaxSubmits : OnError(k)
    \/ \E k \in 1..MaxSubmits : OnSuccessNoConversation(k)
    \/ \E k \in 1..MaxSubmits : MaySend /\ OnSuccessQuestion(k)
    \/ \E k \in 1..MaxSubmits : OnSuccessQuestionSaved(k)
    \/ \E k \in 1..MaxSubmits : MaySend /\ OnSuccessFetchPrototype(k)
    \/ \E k \in 1..MaxSubmits, ok \in BOOLEAN :
          MayThrow(ok) /\ HandleGetPrototype(k, ok)
    \/ \E k \in 1..MaxSubmits : MaySend /\ OnSuccessSavePrototype(k)
    \/ \E k \in 1..MaxSubmits, ok \in BOOLEAN :
          MayThrow(ok) /\ HandleSavePrototype(k, ok)
    \/ \E k \in 1..MaxSubmits : MaySend /\ OnSuccessSaveExplanation(k)
    \/ \E k \in 1..MaxSubmits : OnSuccessComplete(k)
    \/ \E k \in 1..MaxSubmits : OnSuccessSaveFailed(k)
    \/ \E k \in 1..MaxSubmits : MaySend /\ SaveChatReply(k)
    \/ \E k \in 1..MaxSubmits : OnSuccessSendMessage(k)
    \/ MayWork(9) /\ Tick
    \/ SweepTimer

InitClient ==
    /\ cache = EmptyMap
    /\ now = 0
    /\ lastOp = NoOp
    /\ origin = EmptyMap
    /\ inv = [i \in 1..MaxInv |-> Idle]
    /\ last = NoStep
    /\ apiKey \in BOOLEAN
    /\ lastSweep = 0
    /\ messages = StoredBefore
    /\ prototypes = {}
    /\ res = NoRes
    /\ fp = NoFp
    /\ client = NoClient
    /\ handlers = [h \in 1..MaxHandlers |-> NoHandler]

SpecClient == InitClient /\ [][NextClient]_vars

(***************************************************************************)
(* Claims about SimpleCache, checked under SpecCache                       *)
(***************************************************************************)
\* the age of the entry under key k of map c at time t exceeds its ttl
Stale(c, k, t) == t - c[k].timestamp > c[k].ttl

\* C1: get(k) returns a value only if an entry for k was present and not
\* expired (now - timestamp <= ttl), and that value is the entry's data; when
\* the entry was expired, get returns null and k is no longer in the cache.
C1_GetReturnsOnlyFreshAndEvicts ==
    lastOp.name = "get" =>
        LET k == lastOp.key
            b == lastOp.before
        IN  /\ lastOp.ret # Null =>
                  /\ k \in DOMAIN b
                  /\ lastOp.at - b[k].timestamp <= b[k].ttl
                  /\ lastOp.ret = b[k].data
            /\ (k \in DOMAIN b /\ Stale(b, k, lastOp.at)) =>
                  /\ lastOp.ret = Null
                  /\ k \notin DOMAIN cache

\* a get has just found an expired entry under its key, beside a fresh one
C1_Witness ==
    /\ lastOp.name = "get"
    /\ lastOp.key \in DOMAIN lastOp.before
    /\ Stale(lastOp.before, lastOp.key, lastOp.at)
    /\ \E k \in DOMAIN cache : ~Stale(cache, k, lastOp.at)

\* C9: an entry is valid iff now - storedAt <= ttl.  get returns the entry's
\* data at every age up to and including exactly ttl and null at every later
\* age, and cleanup removes an entry exactly when get at that instant would
\* have treated it as expired.
C9_ExpiryBoundaryConsistent ==
    /\ (lastOp.name = "get" /\ lastOp.key \in DOMAIN lastOp.before) =>
          LET e == lastOp.before[lastOp.key]
          IN  IF lastOp.at - e.timestamp <= e.ttl
              THEN lastOp.ret = e.data /\ lastOp.key \in DOMAIN cache
              ELSE lastOp.ret = Null /\ lastOp.key \notin DOMAIN cache
    /\ lastOp.name = "cleanup" =>
          \A k \in DOMAIN lastOp.before :
              /\ (k \notin DOMAIN cache) <=> (get(lastOp.before, k, lastOp.at).ret = Null)
              /\ (k \in DOMAIN cache) <=>
                     (lastOp.at - lastOp.before[k].timestamp <= lastOp.before[k].ttl)

\* a cleanup has just run over one entry whose age is exactly its ttl (kept)
\* and one that is a millisecond or more older than its ttl (removed)
C9_Witness ==
    /\ lastOp.name = "cleanup"
    /\ \E k \in DOMAIN lastOp.before :
           /\ lastOp.at - lastOp.before[k].timestamp = lastOp.before[k].ttl
           /\ k \in DOMAIN cache
    /\ \E k \in DOMAIN lastOp.before : k \notin DOMAIN cache

\* C10: set(k, v, ttl) inserts or overwrites: afterwards get(k) returns v,
\* and the entry's age restarts, so at every later instant t get(k) returns v
\* iff t minus the time of this set is at most this ttl, whatever entry k held.
C10_SetOverwritesAndResetsAge ==
    lastOp.name = "set" =>
        /\ lastOp.key \in DOMAIN cache
        /\ cache[lastOp.key] = [data |-> lastOp.data, timestamp |-> lastOp.at,
                                ttl |-> lastOp.ttlMinutes * MsPerMinute]
        /\ \A t \in CacheInstants \cup {lastOp.at + d : d \in {0, 1, 2 * MsPerMinute, 2 * MsPerMinute + 1}} :
              t >= lastOp.at =>
                 get(cache, lastOp.key, t).ret =
                    IF t - lastOp.at <= lastOp.ttlMinutes * MsPerMinute
                    THEN lastOp.data ELSE Null

\* a set has just replaced an older entry that had another value and ttl
C10_Witness ==
    /\ lastOp.name = "set"
    /\ lastOp.key \in DOMAIN lastOp.before
    /\ lastOp.before[lastOp.key].data # lastOp.data
    /\ lastOp.before[lastOp.key].timestamp < lastOp.at
    /\ lastOp.before[lastOp.key].ttl # lastOp.ttlMinutes * MsPerMinute

\* C11: cleanup() removes exactly the expired entries: afterwards no entry
\* with now - timestamp > ttl remains, every entry that was not expired is
\* still present with its value, timestamp and ttl, nothing is added, and a
\* cache that held only fresh entries is left as it was.
C11_CleanupRemovesExactlyExpired ==
    lastOp.name = "cleanup" =>
        LET b == lastOp.before
        IN  /\ \A k \in DOMAIN cache : ~(lastOp.at - cache[k].timestamp > cache[k].ttl)
            /\ \A k \in DOMAIN b :
                   ~(lastOp.at - b[k].timestamp > b[k].ttl) =>
                       k \in DOMAIN cache /\ cache[k] = b[k]
            /\ DOMAIN cache \subseteq DOMAIN b
            /\ (\A k \in DOMAIN b : lastOp.at - b[k].timestamp <= b[k].ttl) =>
                   cache = b

\* a cleanup has just removed an expired entry and kept a fresh one
C11_Witness ==
    /\ lastOp.name = "cleanup"
    /\ \E k \in DOMAIN lastOp.before :
           /\ Stale(lastOp.before, k, lastOp.at)
           /\ k \notin DOMAIN cache
    /\ \E k \in DOMAIN cache :
           /\ cache[k] = lastOp.before[k]
           /\ lastOp.at - cache[k].timestamp < cache[k].ttl

(***************************************************************************)
(* Claims about generateCode and generateChatResponse, checked under Spec  *)
(***************************************************************************)
\* the last step was the first part of a service call
JustCalled == last.step = "call"

\* the last step was the second part of a service call, after the API's answer
JustAnswered == last.step = "return"

\* the entry the last call's lookup found under its key was still valid
FoundFresh ==
    /\ last.cacheKey \in DOMAIN last.before
    /\ last.at - last.before[last.cacheKey].timestamp <= last.before[last.cacheKey].ttl

\* C2: when a service is called with the prompt and context of an earlier
\* successful call while the entry that call stored is within its TTL, the
\* call returns the earlier call's result and does not call the API.
C2_RepeatWithinTtlServedFromCache ==
    (JustCalled /\ FoundFresh /\ last.found.fn = last.fn
        /\ last.found.request = last.request) =>
        /\ last.outcome = Returned(last.found.value)
        /\ last.apiCalls = 0
        /\ last.apiRequest = Null
        /\ inv[last.i].pc = "done"

\* a repeat of an earlier request has just been looked up exactly one TTL
\* after the earlier call stored its result
C2_Witness ==
    /\ JustCalled /\ FoundFresh
    /\ last.found.fn = last.fn /\ last.found.request = last.request
    /\ last.found.by # last.i
    /\ last.at - last.before[last.cacheKey].timestamp = last.before[last.cacheKey].ttl

\* C3: a generateCode request is never answered from the cache with a result
\* that was produced for a different current artifact.
C3_NoCacheSharingAcrossArtifacts ==
    (JustCalled /\ last.fn = "generateCode" /\ last.outcome.status = "returned"
        /\ last.found.fn = "generateCode") =>
        last.found.request.currentPrototype = last.request.currentPrototype

\* C4: for the same prompt and history, the key generateCode computes for a
\* request with a current artifact differs from the key it computes for a
\* request without one.
C4_KeyDependsOnArtifactPresence ==
    \A i \in 1..MaxInv :
        (/\ JustCalled /\ last.fn = "generateCode" /\ apiKey
         /\ inv[i].pc = "awaiting" /\ inv[i].fn = "generateCode"
         /\ inv[i].request.prompt = last.request.prompt
         /\ inv[i].request.conversationHistory = last.request.conversationHistory
         /\ (inv[i].request.currentPrototype = UndefinedStr)
               # (last.request.currentPrototype = UndefinedStr)) =>
            inv[i].cacheKey # last.cacheKey

\* C5 as stated: after an invocation whose API call failed, the cache holds no
\* entry under the invocation's key (here: none stored for the same request,
\* which the claim implies).
C5_NoEntryAfterFailure ==
    (JustAnswered /\ last.outcome.status = "threw") =>
        ~(/\ last.cacheKey \in DOMAIN cache
          /\ origin[last.cacheKey].request = last.request)

\* C5: an invocation whose API call fails (the API rejects, or generateCode
\* gets empty or unparseable content) never writes to the cache: its failing
\* step leaves the cache as it was, and an entry under its key is present
\* afterwards only if another invocation stored it.
C5_FailingInvocationNeverWrites ==
    (JustAnswered /\ last.outcome.status = "threw") =>
        /\ cache = last.before
        /\ last.cacheKey \in DOMAIN cache => origin[last.cacheKey].by # last.i

\* an invocation has just failed while the cache holds an entry under its
\* key, stored for the same request by a concurrent invocation
C5_Witness ==
    /\ JustAnswered /\ last.outcome.status = "threw"
    /\ last.cacheKey \in DOMAIN cache
    /\ origin[last.cacheKey].request = last.request

\* the API answered the last step of generateCode with text that is not JSON
JustGotUnparseable ==
    /\ JustAnswered /\ last.fn = "generateCode"
    /\ last.response.kind = "resolved"
    /\ last.response.content # NullContent /\ last.response.content # ""
    /\ ~JSONparse(last.response.content).ok

\* C6 as stated: a generateCode invocation that gets unparseable content fails
\* with an upstream error and has changed nothing in the cache, neither in its
\* lookup nor after the API's answer (here for a cache whose entry under the
\* key, if any, was stored for the same request).
C6_UnparseableLeavesCacheIdentical ==
    (JustGotUnparseable /\ (last.found = NoOrigin \/ last.found.request = last.request)) =>
        /\ last.outcome.status = "threw"
        /\ last.outcome.error[1] = "Failed to generate code: "
        /\ cache = last.before
        /\ ~last.evicted

\* C6: a generateCode invocation that gets unparseable content fails with an
\* upstream error and stores nothing; the only change it can have made to the
\* cache is its lookup's removal of an expired entry under its own key.
C6_UnparseableOnlyEvictsOwnExpiredEntry ==
    /\ (JustCalled /\ last.fn = "generateCode") =>
          /\ cache = IF last.evicted THEN MapDelete(last.before, last.cacheKey)
                     ELSE last.before
          /\ last.evicted =>
                /\ last.cacheKey \in DOMAIN last.before
                /\ Stale(last.before, last.cacheKey, last.at)
    /\ JustGotUnparseable =>
          /\ last.outcome.status = "threw"
          /\ last.outcome.error[1] = "Failed to generate code: "
          /\ cache = last.before

\* an invocation whose lookup removed an expired entry has just failed on
\* unparseable content
C6_Witness ==
    /\ JustGotUnparseable /\ last.evicted
    /\ last.found.request = last.request
    /\ last.outcome.status = "threw"

\* the API answered the last step of generateCode with a JSON object that
\* lacks html or explanation
JustGotIncompleteObject ==
    /\ JustAnswered /\ last.fn = "generateCode"
    /\ last.response.kind = "resolved"
    /\ JSONparse(last.response.content).ok
    /\ ~JSONparse(last.response.content).isNull
    /\ \/ JSONparse(last.response.content).value.html = Undefined
       \/ JSONparse(last.response.content).value.explanation = Undefined

\* the objects the API can answer with that lack a required field: both
\* fields, the markup alone, the explanation alone
IncompleteObjects == {JsonEmpty, JsonNoHtml, JsonNoExplanation}

\* generateCode, given the answer, fails without a result and leaves the cache
FailsWithoutStore(tl, c) ==
    /\ tl.outcome.status = "threw"
    /\ tl.outcome.value = Null
    /\ tl.cache = c

\* C7: when the API returns to generateCode a parseable object without html
\* or without explanation, the invocation is a terminal failure: generateCode
\* fails, returns no result and stores nothing in the cache.  Stated of the
\* invocation that has just got such an object, and of what every invocation
\* that waits for the API does when it gets one of the three objects.
C7_IncompleteObjectFails ==
    /\ JustGotIncompleteObject =>
          /\ last.outcome.status = "threw"
          /\ last.outcome.value = Null
          /\ cache = last.before
    /\ \A i \in 1..MaxInv :
          (inv[i].pc = "awaiting" /\ inv[i].fn = "generateCode") =>
             \A content \in IncompleteObjects :
                FailsWithoutStore(
                   generateCodeTail(cache, inv[i].cacheKey,
                                    [kind |-> "resolved", content |-> content,
                                     message |-> ""], now),
                   cache)

\* the positions of event e in a sequence of events
Positions(events, e) == {n \in 1..Len(events) : events[n] = e}

\* C8: within one invocation the cache lookup comes before any API call, and
\* a result obtained from the API is stored in the cache before it is
\* returned: when the invocation returns it, the cache holds it under the key.
C8_LookupThenCallThenStoreThenReturn ==
    /\ \A i \in 1..MaxInv :
          inv[i].pc = "awaiting" => inv[i].events = <<"lookup", "apiCall">>
    /\ (JustCalled \/ JustAnswered) =>
          /\ \A a \in Positions(last.events, "apiCall") :
                \E l \in Positions(last.events, "lookup") : l < a
          /\ (last.outcome.status = "returned" /\ last.apiCalls > 0) =>
                /\ \A r \in Positions(last.events, "return") :
                      \E st \in Positions(last.events, "store") :
                         /\ st < r
                         /\ \A a \in Positions(last.events, "apiCall") : a < st
                /\ last.cacheKey \in DOMAIN cache
                /\ cache[last.cacheKey].data = last.outcome.value
                /\ cache[last.cacheKey].timestamp = last.at

\* generateChatResponse has just returned a reply it got from the API
C8_Witness ==
    /\ JustAnswered /\ last.fn = "generateChatResponse"
    /\ last.outcome.status = "returned" /\ last.apiCalls = 1
    /\ last.events = <<"lookup", "apiCall", "store", "return">>


\* the entry under kc was stored by generateCode and the entry under kh by
\* generateChatResponse, for the same prompt and history, at the same instant
StoredTogether(kc, kh) ==
    /\ kc \in DOMAIN cache /\ kh \in DOMAIN cache
    /\ origin[kc].fn = "generateCode" /\ origin[kh].fn = "generateChatResponse"
    /\ origin[kc].request.prompt = origin[kh].request.prompt
    /\ origin[kc].request.conversationHistory = origin[kh].request.conversationHistory
    /\ cache[kc].timestamp = cache[kh].timestamp

\* C12: a successful generateCode stores its result for 5 minutes and a
\* successful generateChatResponse its reply for 2 minutes; a lookup of an
\* entry a service stored hits up to that age and misses after it, so of two
\* entries stored together for the same input the chat entry expires first:
\* wherever the chat entry is still valid so is the code entry, and between
\* 2 and 5 minutes after the store the code entry hits and the chat one misses.
C12_CodeTtlFiveChatTtlTwo ==
    /\ (JustAnswered /\ last.outcome.status = "returned") =>
          cache[last.cacheKey].ttl =
             (IF last.fn = "generateCode" THEN 5 ELSE 2) * 60 * 1000
    /\ (JustCalled /\ apiKey /\ last.cacheKey \in DOMAIN last.before
           /\ last.found.fn = last.fn) =>
          LET age == last.at - last.before[last.cacheKey].timestamp
              ttl == IF last.fn = "generateCode" THEN 5 * 60 * 1000 ELSE 2 * 60 * 1000
          IN  (last.outcome.status = "returned") <=> (age <= ttl)
    /\ \A kc, kh \in DOMAIN cache :
          StoredTogether(kc, kh) =>
             \A d \in {0, 2 * 60 * 1000, 2 * 60 * 1000 + 1, 3 * 60 * 1000,
                       5 * 60 * 1000, 5 * 60 * 1000 + 1} :
                LET t       == cache[kc].timestamp + d
                    codeHit == get(cache, kc, t).ret # Null
                    chatHit == get(cache, kh, t).ret # Null
                IN  /\ chatHit => codeHit
                    /\ (d > 2 * 60 * 1000 /\ d <= 5 * 60 * 1000) =>
                          codeHit /\ ~chatHit

\* a code result and a chat reply for the same input were stored at the same
\* instant, more than 2 and at most 5 minutes ago, and both are in the cache
C12_Witness ==
    \E kc, kh \in DOMAIN cache :
        /\ StoredTogether(kc, kh)
        /\ ~isModification(origin[kc].request)
        /\ now - cache[kc].timestamp > 2 * 60 * 1000
        /\ now - cache[kc].timestamp <= 5 * 60 * 1000

\* the last step stored a result over an entry that a concurrent invocation
\* of the same service and request put there after this one's lookup missed
OverwroteConcurrentStore ==
    /\ JustAnswered /\ last.outcome.status = "returned"
    /\ last.found = NoOrigin
    /\ last.cacheKey \in DOMAIN last.before

\* C13: there is no coalescing and no per-key lock.  A call that misses the
\* cache calls the API even while another invocation with the same key is
\* waiting for the API's answer; each of them stores its own result when the
\* answer arrives, and the entry in the cache is the one of the store that
\* happened last, whatever an earlier store left there.
C13_ConcurrentMissesBothCallLastStoreWins ==
    /\ \A j \in 1..MaxInv :
          (/\ JustCalled /\ apiKey /\ j # last.i
           /\ inv[j].pc = "awaiting" /\ inv[j].cacheKey = last.cacheKey
           /\ ~FoundFresh) =>
              /\ last.outcome = Pending
              /\ last.apiCalls = 1
              /\ inv[last.i].pc = "awaiting"
              /\ inv[j].apiCalls = 1
    /\ (JustAnswered /\ last.outcome.status = "returned") =>
          /\ "store" \in {last.events[n] : n \in 1..Len(last.events)}
          /\ cache[last.cacheKey] = [data |-> last.outcome.value,
                                     timestamp |-> last.at,
                                     ttl |-> cache[last.cacheKey].ttl]
          /\ origin[last.cacheKey].by = last.i
          /\ \A k \in DOMAIN last.before :
                k # last.cacheKey => (k \in DOMAIN cache /\ cache[k] = last.before[k])

\* two invocations with the same key both missed and both called the API;
\* the second answer has just replaced the different result the first stored
C13_Witness ==
    /\ OverwroteConcurrentStore
    /\ last.before[last.cacheKey].data # last.outcome.value
    /\ cache[last.cacheKey].data = last.outcome.value
    /\ last.apiCalls = 1

\* C14: however the cleanup timer interleaves with the two halves of the
\* invocations in flight, no step removes an entry that is unexpired at that
\* moment (so a sweep undoes no store made before it), a lookup answers from
\* the cache only with the complete value a store wrote and only while it is
\* unexpired, every entry in the cache is exactly what its store wrote, and a
\* store made after a sweep stands.
C14_SweepNeverRacesDestructively ==
    /\ last.step # "none" =>
          \A k \in DOMAIN last.before :
             ~Stale(last.before, k, last.at) =>
                /\ k \in DOMAIN cache
                /\ (last.step = "sweep" \/ k # last.cacheKey) => cache[k] = last.before[k]
    /\ last.step = "sweep" =>
          /\ DOMAIN cache \subseteq DOMAIN last.before
          /\ \A k \in DOMAIN cache : ~Stale(cache, k, last.at)
    /\ (JustCalled /\ last.outcome.status = "returned") =>
          /\ FoundFresh
          /\ last.outcome.value = last.before[last.cacheKey].data
          /\ last.outcome.value = last.found.value
    /\ \A k \in DOMAIN cache :
          /\ cache[k].data = origin[k].value
          /\ cache[k].timestamp <= now
          /\ cache[k].ttl = (IF origin[k].fn = "generateCode" THEN CodeTtlMinutes
                             ELSE ChatTtlMinutes) * MsPerMinute
    /\ (JustAnswered /\ last.outcome.status = "returned") =>
          /\ last.cacheKey \in DOMAIN cache
          /\ cache[last.cacheKey].data = last.outcome.value

\* the cleanup timer has just fired while an invocation is waiting for the
\* API's answer, and it kept an entry, stored before the sweep, whose age is
\* exactly its ttl
C14_Witness ==
    /\ last.step = "sweep"
    /\ \E i \in 1..MaxInv : inv[i].pc = "awaiting"
    /\ \E k \in DOMAIN cache :
          /\ cache[k] = last.before[k]
          /\ last.at - cache[k].timestamp = cache[k].ttl

\* what a service does up to its await when no credential is configured
FailsFastUnconfigured(h, c) ==
    /\ h.outcome = Threw("", "OpenAI API key not configured")
    /\ h.apiCalls = 0
    /\ h.events = <<"throw">>
    /\ h.cache = c

\* C15: without an API credential generateCode and generateChatResponse
\* fail with the configuration error before any API call, without looking the
\* request up in the cache and without changing the cache; the same is what
\* either service does, the credential missing, on every cache the server
\* can hold, with valid and with expired entries under the request's key.
C15_NoCredentialFailsBeforeCacheAndApi ==
    /\ (JustCalled /\ ~apiKey) =>
          /\ last.outcome = Threw("", "OpenAI API key not configured")
          /\ last.apiCalls = 0
          /\ last.apiRequest = Null
          /\ last.events = <<"throw">>
          /\ ~last.evicted
          /\ cache = last.before
          /\ inv[last.i].pc = "done"
    /\ ~apiKey => \A i \in 1..MaxInv : inv[i].pc # "awaiting"
    /\ \A r \in CodeRequests :
          FailsFastUnconfigured(generateCodeHead(cache, r, FALSE, now), cache)
    /\ \A r \in ChatRequests :
          FailsFastUnconfigured(generateChatResponseHead(cache, r, FALSE, now), cache)

\* generateCode has just been called on a server without a credential
C15_Witness ==
    /\ JustCalled /\ ~apiKey
    /\ last.fn = "generateCode"
    /\ last.outcome.status = "threw"

\* the API call of the invocation that has just ended failed: the API
\* rejected, or generateCode got empty content or content that is not JSON
UpstreamFailed ==
    /\ JustAnswered
    /\ \/ last.response.kind = "rejected"
       \/ /\ last.fn = "generateCode"
          /\ \/ last.response.content = NullContent
             \/ last.response.content = ""
             \/ ~JSONparse(last.response.content).ok

\* C16: an invocation whose API call fails, or for generateCode returns empty
\* or unparseable content, ends by throwing an error that carries the
\* underlying message behind the service's prefix, and returns no value.
C16_UpstreamFailurePropagates ==
    UpstreamFailed =>
        /\ last.outcome.status = "threw"
        /\ last.outcome.value = Null
        /\ "return" \notin {last.events[n] : n \in 1..Len(last.events)}
        /\ last.outcome.error[1] =
              (IF last.fn = "generateCode" THEN "Failed to generate code: "
               ELSE "Failed to generate chat response: ")
        /\ last.response.kind = "rejected" =>
              last.outcome.error[2] = last.response.message
        /\ (last.response.kind = "resolved"
               /\ last.response.content \in {NullContent, ""}) =>
              last.outcome.error[2] = "No response content from OpenAI"
        /\ last.outcome.error[2] # ""
        /\ inv[last.i].pc = "done"

\* the API has just rejected the call of a generateChatResponse invocation
C16_Witness ==
    /\ UpstreamFailed
    /\ last.fn = "generateChatResponse"
    /\ last.response.kind = "rejected"
    /\ last.outcome = Threw("Failed to generate chat response: ", "429 rate limit")

\* the number of API calls in a sequence of events
ApiCallsIn(events) == Cardinality(Positions(events, "apiCall"))

\* C17: an invocation calls the API at most once: exactly once when its
\* lookup misses, not at all when the lookup hits or the credential is
\* missing, and not again after the API's answer, failure included.
C17_AtMostOneApiCallPerInvocation ==
    /\ \A i \in 1..MaxInv :
          /\ inv[i].apiCalls <= 1
          /\ ApiCallsIn(inv[i].events) = inv[i].apiCalls
          /\ inv[i].pc = "awaiting" => inv[i].apiCalls = 1
    /\ JustCalled =>
          /\ ApiCallsIn(last.events) = last.apiCalls
          /\ last.apiCalls = (IF apiKey /\ ~FoundFresh THEN 1 ELSE 0)
          /\ (last.apiCalls = 1) <=> (last.apiRequest # Null)
          /\ (last.apiCalls = 1) <=> (inv[last.i].pc = "awaiting")
    /\ JustAnswered =>
          /\ last.apiCalls = 1
          /\ ApiCallsIn(last.events) = 1
          /\ inv[last.i].pc = "done"

\* an invocation that missed the cache has just failed on the API's answer,
\* having called the API once
C17_Witness ==
    /\ JustAnswered /\ last.outcome.status = "threw"
    /\ last.events = <<"lookup", "apiCall", "throw">>
    /\ last.apiCalls = 1

\* the request carries a current artifact that is not blank
HasArtifact(request) ==
    /\ request.currentPrototype # UndefinedStr
    /\ \E n \in 1..Len(request.currentPrototype) : ~IsSpace(request.currentPrototype[n])

\* the API request uses the modification instructions, embedding the current
\* markup, with temperature 0.1 when the request has an artifact, and the
\* fresh-generation instructions with temperature 0.7 when it has none
DecidedConsistently(request, api) ==
    IF HasArtifact(request)
    THEN /\ api.temperatureTenths = 1
         /\ api.messages[1].content =
               <<"<modification rules>">> \o request.currentPrototype
                  \o <<"<response format>">>
    ELSE /\ api.temperatureTenths = 7
         /\ api.messages[1].content = <<"<fresh generation rules>">>

\* C18: the request generateCode hands to the API is decided by whether the
\* request has a current artifact that is not blank: modification
\* instructions with temperature 0.1 if it has, fresh-generation instructions
\* with temperature 0.7 if not, never one with the other; the request is
\* fixed when the API is called and is the same when the answer arrives.
C18_ModificationDecisionConsistent ==
    /\ \A i \in 1..MaxInv :
          (inv[i].pc = "awaiting" /\ inv[i].fn = "generateCode") =>
             DecidedConsistently(inv[i].request, inv[i].apiRequest)
    /\ ((JustCalled \/ JustAnswered) /\ last.fn = "generateCode"
           /\ last.apiCalls = 1) =>
          /\ last.apiRequest # Null
          /\ DecidedConsistently(last.request, last.apiRequest)
          /\ last.apiRequest = codeApiRequest(last.request)

\* generateCode has just called the API for a request whose current artifact
\* is blank (fresh generation, 0.7) while another invocation waits for the
\* answer to a modification request (0.1)
C18_Witness ==
    /\ JustCalled /\ last.fn = "generateCode" /\ last.apiCalls = 1
    /\ last.request.currentPrototype = BlankPage
    /\ last.apiRequest.temperatureTenths = 7
    /\ \E i \in 1..MaxInv :
          /\ inv[i].pc = "awaiting" /\ inv[i].fn = "generateCode"
          /\ inv[i].request.currentPrototype = Page1
          /\ inv[i].apiRequest.temperatureTenths = 1

\* the messages are one system message, then the turns of the history in
\* their order with their roles and contents, then the prompt as a user turn
SystemHistoryPrompt(request, msgs) ==
    LET h == request.conversationHistory
    IN  /\ Len(msgs) = Len(h) + 2
        /\ msgs[1].role = RoleSystem
        /\ {n \in 1..Len(msgs) : msgs[n].role = RoleSystem} = {1}
        /\ \A j \in 1..Len(h) :
              msgs[j + 1] = [role |-> h[j].role, content |-> h[j].content]
        /\ msgs[Len(msgs)] = [role |-> RoleUser, content |-> request.prompt]

\* C19: the messages either service hands to the API are exactly one system
\* message first, then the supplied history oldest to newest with roles and
\* contents unchanged, then the current prompt as the last, user message.
C19_MessagesSystemHistoryPrompt ==
    /\ \A i \in 1..MaxInv :
          inv[i].pc = "awaiting" =>
             SystemHistoryPrompt(inv[i].request, inv[i].apiRequest.messages)
    /\ ((JustCalled \/ JustAnswered) /\ last.apiCalls = 1) =>
          /\ SystemHistoryPrompt(last.request, last.apiRequest.messages)
          /\ last.apiRequest.messages[1].content =
                (IF last.fn = "generateCode" THEN systemPrompt(last.request)
                 ELSE <<"<chat assistant rules>">>)

\* generateChatResponse has just called the API with a history of two turns
\* of different roles while a generateCode with a history waits for its answer
C19_Witness ==
    /\ JustCalled /\ last.fn = "generateChatResponse" /\ last.apiCalls = 1
    /\ last.request.conversationHistory = <<Turn1, Turn2>>
    /\ Len(last.apiRequest.messages) = 4
    /\ last.apiRequest.messages[2].content = Turn1.content
    /\ last.apiRequest.messages[3].content = Turn2.content
    /\ \E i \in 1..MaxInv :
          /\ inv[i].pc = "awaiting" /\ inv[i].fn = "generateCode"
          /\ Len(inv[i].request.conversationHistory) = 2

(***************************************************************************)
(* Claims about the routes, checked under SpecRoutes                       *)
(***************************************************************************)
\* the turns of a conversation, oldest first: the j-th turn is the stored
\* message of the conversation that has j - 1 older ones
Turns(conversationId) ==
    LET rows == {r \in messages : r.conversationId = conversationId}
    IN  [j \in 1..Cardinality(rows) |->
            LET row == CHOOSE r \in rows :
                           Cardinality({q \in rows : q.createdAt < r.createdAt}) = j - 1
            IN  [role |-> row.role, content |-> row.content]]

\* a route has just passed a request on to its service
JustRouted ==
    /\ JustCalled
    /\ res.route \in {"/api/generate-code", "/api/chat"}
    /\ res.status # 400

\* the history that is the last ten of the turns, or all of fewer than ten,
\* in their order
LastTenOf(h, turns) ==
    h = SubSeq(turns, (IF Len(turns) < 10 THEN 1 ELSE Len(turns) - 9), Len(turns))

AnsweredWithoutContent ==
    /\ JustAnswered
    /\ last.fn = "generateChatResponse"
    /\ last.response.kind = "resolved"
    /\ last.response.content \in {"", NullContent}

\* a chat call has found the stored fallback of an identical request in time
FoundFreshFallback ==
    /\ JustCalled
    /\ last.fn = "generateChatResponse"
    /\ FoundFresh
    /\ last.found.fn = "generateChatResponse"
    /\ last.found.request = last.request
    /\ last.found.value
          = [str |-> "I apologize, but I couldn't generate a response. Please try again."]

\* C27: when the API call of generateChatResponse succeeds with empty or null
\* reply content the invocation does not fail: it returns the apology fallback
\* and stores it for 2 minutes, and an identical request within that time is
\* answered with the fallback without a call of the API.
C27_EmptyChatReplyFallsBackAndIsCached ==
    LET fallback ==
            [str |-> "I apologize, but I couldn't generate a response. Please try again."]
    IN  /\ AnsweredWithoutContent =>
              /\ last.outcome = Returned(fallback)
              /\ last.cacheKey \in DOMAIN cache
              /\ cache[last.cacheKey]
                    = [data |-> fallback, timestamp |-> now, ttl |-> 2 * 60 * 1000]
              /\ \A d \in {0, 60 * 1000, 2 * 60 * 1000} :
                    get(cache, last.cacheKey, now + d).ret = fallback
              /\ get(cache, last.cacheKey, now + 2 * 60 * 1000 + 1).ret = Null
        /\ FoundFreshFallback =>
              /\ last.outcome = Returned(fallback)
              /\ last.apiCalls = 0
              /\ last.apiRequest = Null

\* a chat request was answered with the stored fallback, without an API call,
\* a minute or two after an identical request got no reply content
C27_Witness ==
    /\ FoundFreshFallback
    /\ last.at > last.before[last.cacheKey].timestamp
    /\ last.apiCalls = 0
    /\ last.outcome.status = "returned"

(***************************************************************************)
(* Further claims about SimpleCache, checked under SpecCache               *)
(***************************************************************************)
\* C24: clear() drops all entries: after it get returns null for every key,
\* whatever fresh or expired entries the cache held, and a set on any key
\* leaves the cache a new cache would have after that set.
C24_ClearDropsEverything ==
    lastOp.name = "clear" =>
        /\ DOMAIN cache = {}
        /\ \A k \in CacheKeys :
              /\ get(cache, k, now).ret = Null
              /\ \A data \in CacheValues, ttlMinutes \in TtlArgs :
                    /\ set(cache, k, data, ttlMinutes, now)
                          = set(EmptyMap, k, data, ttlMinutes, now)
                    /\ DOMAIN set(cache, k, data, ttlMinutes, now) = {k}
                    /\ get(set(cache, k, data, ttlMinutes, now), k, now).ret = data

\* clear() has emptied a cache that held a fresh and an expired entry
C24_Witness ==
    /\ lastOp.name = "clear"
    /\ \E k1, k2 \in DOMAIN lastOp.before :
          /\ Stale(lastOp.before, k1, lastOp.at)
          /\ ~Stale(lastOp.before, k2, lastOp.at)
    /\ DOMAIN cache = {}

\* C28: cache operations on one key leave every other key untouched: set(k)
\* and get(k), the lazy eviction of an expired k included, never add, remove
\* or change the value, timestamp or ttl of an entry under another key.
C28_SetAndGetTouchOnlyTheirKey ==
    lastOp.name \in {"set", "get"} =>
        /\ DOMAIN cache \ {lastOp.key} = DOMAIN lastOp.before \ {lastOp.key}
        /\ \A k \in DOMAIN cache \ {lastOp.key} : cache[k] = lastOp.before[k]

\* a get has evicted its expired entry beside an expired entry under another
\* key, which is still there
C28_Witness ==
    /\ lastOp.name = "get"
    /\ lastOp.key \in DOMAIN lastOp.before
    /\ lastOp.key \notin DOMAIN cache
    /\ \E k \in DOMAIN cache :
          /\ k # lastOp.key
          /\ Stale(lastOp.before, k, lastOp.at)
          /\ cache[k] = lastOp.before[k]

(***************************************************************************)
(* Claims about createCacheKey, checked under SpecKey                      *)
(***************************************************************************)
\* the parts of a request the fingerprint may depend on: the first 200
\* characters of the prompt and, of each of the last 3 turns, the role and the
\* first 100 characters of the content, each up to runs of white space
KeyParts(k) ==
    LET n     == Len(k.conversationHistory)
        first == IF n > 3 THEN n - 2 ELSE 1
    IN  [prompt |-> CollapseWs(SubSeq(k.prompt, 1, Min(200, Len(k.prompt)))),
         turns  |-> [j \in 1..(n - first + 1) |->
                        LET m == k.conversationHistory[first + j - 1]
                        IN  [role    |-> CollapseWs(m.role),
                             content |-> CollapseWs(SubSeq(m.content, 1,
                                                           Min(100, Len(m.content))))]]]

\* two keys have been computed, one after the other
TwoComputed == fp.prev.fn # "none" /\ fp.cur.fn # "none"

\* C21: createCacheKey depends only on the first 200 characters of the prompt
\* and, for each of the last 3 turns, on its role and the first 100 characters
\* of its content, white space runs collapsed: two requests that agree on
\* these parts get the same fingerprint, whatever the rest of the prompt, the
\* rest of a turn, the older turns or the current artifact.
C21_KeyDependsOnlyOnTruncatedParts ==
    (TwoComputed /\ KeyParts(fp.prev) = KeyParts(fp.cur)) =>
        fp.prev.fingerprint = fp.cur.fingerprint

\* two prompts that differ behind their 200th character got one fingerprint
C21_Witness ==
    /\ TwoComputed
    /\ Len(fp.prev.prompt) > 200
    /\ fp.prev.prompt # fp.cur.prompt
    /\ KeyParts(fp.prev) = KeyParts(fp.cur)
    /\ fp.prev.fingerprint = fp.cur.fingerprint

\* C25 (as stated): chat replies and code generation results live in
\* disjoint key spaces: the key generateChatResponse uses for a request never
\* equals the key generateCode uses for a request.
C25_ChatAndCodeKeysDisjoint ==
    /\ (TwoComputed /\ fp.prev.fn # fp.cur.fn) => fp.prev.key # fp.cur.key
    /\ \A request \in KeyRequests :
          generateCodeHead(cache, request, TRUE, now).outcome.value
              # [str |-> "I'll update the heading."]

\* C26 (as stated): no false sharing across the components: two requests
\* whose truncated prompts differ, or whose last-3-turn lists differ in
\* length, in a role or in a truncated content, beyond white space runs, get
\* different fingerprints, also when prompt or contents hold '|' or ':'.
C26_NoFalseSharing ==
    (TwoComputed /\ KeyParts(fp.prev) # KeyParts(fp.cur)) =>
        fp.prev.fingerprint # fp.cur.fingerprint

\* s holds none of the separator characters
NoSeparator(s) == \A j \in 1..Len(s) : s[j] \notin {"|", ":"}

\* the truncated prompt, roles and contents of k hold no separator character
SeparatorFree(k) ==
    /\ NoSeparator(KeyParts(k).prompt)
    /\ \A j \in 1..Len(KeyParts(k).turns) :
          /\ NoSeparator(KeyParts(k).turns[j].role)
          /\ NoSeparator(KeyParts(k).turns[j].content)

\* C26 (amended): two requests whose truncated prompts, roles and truncated
\* contents hold neither '|' nor ':' and that differ in the truncated prompt
\* or in the length, a role or a truncated content of the last-3-turn list,
\* beyond white space runs, get different fingerprints.
C26_NoFalseSharingWithoutSeparators ==
    (/\ TwoComputed
     /\ KeyParts(fp.prev) # KeyParts(fp.cur)
     /\ SeparatorFree(fp.prev)
     /\ SeparatorFree(fp.cur)) =>
        fp.prev.fingerprint # fp.cur.fingerprint

\* two requests that differ in the role of their one turn only got two
\* fingerprints
C26_Witness ==
    /\ TwoComputed
    /\ SeparatorFree(fp.prev)
    /\ SeparatorFree(fp.cur)
    /\ fp.prev.prompt = fp.cur.prompt
    /\ Len(fp.prev.conversationHistory) = 1
    /\ Len(fp.cur.conversationHistory) = 1
    /\ fp.prev.conversationHistory[1].content = fp.cur.conversationHistory[1].content
    /\ fp.prev.conversationHistory[1].role # fp.cur.conversationHistory[1].role
    /\ fp.prev.fingerprint # fp.cur.fingerprint

(***************************************************************************)
(* Further claims about the routes, checked under SpecRoutes               *)
(***************************************************************************)
\* the step answers a request to one of the two AI routes that has no prompt
AnswersBodyWithoutPrompt ==
    /\ res'.route \in {"/api/generate-code", "/api/chat"}
    /\ res'.request # Null
    /\ res'.request.prompt \in {UndefinedStr, << >>}

\* the step is one of a handler: the clock stands and the timer does not run
HandlerStep ==
    /\ now' = now
    /\ lastSweep' = lastSweep

\* C30: a request to /api/generate-code or /api/chat without a prompt, missing
\* or empty, is rejected with status 400 before any storage read, cache
\* lookup or API call, and leaves the cache unchanged.
C30_MissingPromptRejectedBeforeAnyWork ==
    [][(AnswersBodyWithoutPrompt /\ HandlerStep) =>
          /\ res'.status = 400
          /\ res'.json = [message |-> "Prompt is required"]
          /\ res'.reads = 0
          /\ last' = NoStep
          /\ cache' = cache
          /\ origin' = origin
          /\ inv' = inv
          /\ messages' = messages
          /\ prototypes' = prototypes
          /\ handlers' = handlers]_vars

\* a request with an empty prompt was rejected while the cache held an entry
\* and a POST /api/messages was waiting for the database, its message inserted
C30_Witness ==
    /\ res.status = 400
    /\ res.route \in {"/api/generate-code", "/api/chat"}
    /\ res.request.prompt = << >>
    /\ res.reads = 0
    /\ last = NoStep
    /\ DOMAIN cache # {}
    /\ \E h \in 1..MaxHandlers :
          handlers[h].route = "/api/messages" /\ handlers[h].pc = "inserted"

(***************************************************************************)
(* Claims about the browser's chat hook, checked under SpecClient          *)
(***************************************************************************)
\* the request to /api/generate-code or /api/chat of submission k has failed
AiRequestFailed(k) ==
    /\ client.flows[k].pc = "failed"
    /\ client.flows[k].response.route \in {"/api/generate-code", "/api/chat"}

\* C23 (as stated): when a code generation or chat request issued from the
\* client fails, the persisted conversation state, its stored messages and
\* prototype, is the same as before the user submitted the prompt.
C23_FailedRequestLeavesPersistedStateAsBefore ==
    \A k \in 1..MaxSubmits :
        AiRequestFailed(k) =>
            /\ messages = client.flows[k].before.messages
            /\ prototypes = client.flows[k].before.prototypes

\* the result of the code request of submission f carries a question and no
\* markup
GotQuestionOnly(f) ==
    /\ f.flow = "code"
    /\ f.result # Null
    /\ f.result.question \notin {Undefined, ""}
    /\ f.result.html \in {Undefined, ""}

\* the question of submission f is stored in the table as a turn of the
\* assistant in the conversation, later than the submission
QuestionStored(f, table, conversationId) ==
    \E turn \in table \ f.before.messages :
        /\ turn.conversationId = conversationId
        /\ turn.role = RoleAssistant
        /\ turn.content = Chars(f.result.question)

\* the prototypes of a conversation in a prototypes table
PrototypeIn(table, conversationId) ==
    {r \in table : r.conversationId = conversationId}

\* the mutation of submission k, a code generation whose result has arrived
\* with a question and no markup, ends in this step: its onSuccess has
\* returned, or has thrown and its onError has run
EndsWithQuestion(k) ==
    /\ client.flows[k].pc \notin {"done", "returned", "failed"}
    /\ client'.flows[k].pc \in {"done", "returned", "failed"}
    /\ GotQuestionOnly(client'.flows[k])

\* the server takes the save of the markup of submission k in this step
SavesPrototype(k) ==
    /\ Waits(k, "savingPrototype")
    /\ client'.flows[k].request = "handling"

\* the change of the prototypes is the save of the markup of submission f in
\* the conversation its onSuccess has seen: the creation of one row when the
\* conversation has no prototype, the update of its row when it has one
CreatesOrUpdates(f) ==
    IF PrototypeIn(prototypes, f.seen) = {}
    THEN \E new \in prototypes' \ prototypes :
            /\ prototypes' = prototypes \cup {new}
            /\ new.conversationId = f.seen
            /\ new.htmlContent = Chars(f.result.html)
    ELSE \E old \in PrototypeIn(prototypes, f.seen), new \in prototypes' :
            /\ prototypes' = (prototypes \ {old}) \cup {new}
            /\ new.id = old.id
            /\ new.conversationId = old.conversationId
            /\ new.htmlContent = Chars(f.result.html)

\* every change of the prototypes is the save of one submission whose result
\* is not a question without markup
PrototypeOnlyForMarkup ==
    prototypes' # prototypes =>
        \E k \in 1..MaxSubmits :
           /\ SavesPrototype(k)
           /\ client.flows[k].flow = "code"
           /\ ~GotQuestionOnly(client.flows[k])
           /\ CreatesOrUpdates(client.flows[k])

\* C29 (as stated): in the client's generate-code flow a result with a
\* question and empty markup has its question persisted as an assistant
\* message and no prototype is created or updated; a prototype is created
\* (when the conversation has none) or updated (when it has one) only for a
\* result that does not have both a question and empty markup.  Stated of the
\* steps: when the mutation of a submission with such a result ends, the
\* question is stored as a turn of the assistant; and the prototypes change
\* only by the save of a submission with another result, which creates a
\* prototype for a conversation without one and updates the prototype of a
\* conversation with one.
C29_QuestionPersistedWithoutPrototype ==
    [][/\ \A k \in 1..MaxSubmits :
             EndsWithQuestion(k) =>
                \E conversationId \in {r.conversationId : r \in messages'} :
                   QuestionStored(client'.flows[k], messages', conversationId)
       /\ PrototypeOnlyForMarkup]_vars

====
